---- MODULE Spec2Model ----
(***************************************************************************)
(* A model of src/src/schema_transformer.py: the SchemaTransformer that    *)
(* maps client records onto a JSON schema (field resolution, type and      *)
(* format conversion, defaults, custom transformers, strict validation).   *)
(*                                                                         *)
(* Python values are tagged records; a dict is the sequence of its         *)
(* <<key, value>> items in insertion order (keys unique); an exception is  *)
(* an outcome [k |-> "raise"] carrying the exception class and the message *)
(* as a sequence of text pieces (an f-string is the concatenation of its   *)
(* pieces).                                                                *)
(***************************************************************************)
EXTENDS Integers, Sequences, FiniteSets, TLC

VARIABLES schema, strict, custom_transformers,
          pc, data, idx, acc, outcome, calls,
          fin, fout,
          heap, schemas

vars == <<schema, strict, custom_transformers, pc, data, idx, acc, outcome,
          calls, fin, fout, heap, schemas>>

\* ------------------------------------------------------------ Python values

NoneV == [t |-> "none"]
IntV(n) == [t |-> "int", i |-> n]
BoolV(b) == [t |-> "bool", b |-> b]
StrV(s) == [t |-> "str", s |-> s]
\* float: the whole-number floats n.0, and float('inf')
FloatV(n) == [t |-> "float", f |-> n]
InfV == [t |-> "inf"]
\* datetime.date / datetime.datetime built from the text s
DateV(s) == [t |-> "date", iso |-> s]
DateTimeV(s) == [t |-> "datetime", iso |-> s]
ListV(l) == [t |-> "list", l |-> l]
DictV(items) == [t |-> "dict", d |-> items]

IsNone(v) == v.t = "none"
IsDict(v) == v.t = "dict"
IsList(v) == v.t = "list"
IsStr(v) == v.t = "str"

\* ------------------------------------------------------------ outcomes

Ret(v) == [k |-> "ret", v |-> v]
Raise(exc, msg) == [k |-> "raise", exc |-> exc, msg |-> msg]
Returned(o) == o.k = "ret"
Raised(o) == o.k = "raise"

\* ------------------------------------------------------------ dict

HasKey(items, key) == \E j \in 1..Len(items) : items[j][1] = key
\* dict.get(key): the value, None when the key is missing
DictGet(items, key) ==
    IF HasKey(items, key)
    THEN items[CHOOSE j \in 1..Len(items) : items[j][1] = key][2]
    ELSE NoneV
\* d[key] = value: in place when the key exists, appended otherwise
DictSet(items, key, value) ==
    IF HasKey(items, key)
    THEN [j \in 1..Len(items) |->
             IF items[j][1] = key THEN <<key, value>> ELSE items[j]]
    ELSE Append(items, <<key, value>>)

\* ------------------------------------------------------------ text tables
\* TLC has no access to the characters of a string, so the text operations the
\* code uses are tabulated for the texts of the model's universe.

EmailRaw == " A@B.C "
\* the texts int() and float() parse: the decimal numerals of 0..MaxNumeral
MaxNumeral == 9
\* the texts strptime(_, '%Y-%m-%d') and datetime.fromisoformat accept
IsoDates == {"1990-01-15"}
IsoDateTimes == {"1990-01-15", "1990-01-15T10:30:00Z"}

IsNumeral(s) == \E n \in 0..MaxNumeral : ToString(n) = s
NumeralValue(s) == CHOOSE n \in 0..MaxNumeral : ToString(n) = s

\* str.lower(): every other text of the universe has no upper-case letter
StrLower(s) ==
    CASE s = EmailRaw -> " a@b.c "
      [] s = "True" -> "true"
      [] s = "False" -> "false"
      [] s = "POSTGRES" -> "postgres"
      [] s = "PostgreSQL" -> "postgresql"
      [] s = "SQLite" -> "sqlite"
      [] s = "Kafka" -> "kafka"
      [] s = "MySql" -> "mysql"
      [] s = "ORACLE" -> "oracle"
      [] OTHER -> s
\* str.strip(): every other text of the universe has no outer white space
StrStrip(s) ==
    CASE s = EmailRaw -> "A@B.C"
      [] s = " a@b.c " -> "a@b.c"
      [] OTHER -> s
\* list(str): the characters of the input texts
StrChars(s) ==
    CASE s = "" -> <<>>
      [] s = "abc" -> <<"a", "b", "c">>
      [] s = "5" -> <<"5">>
      [] s = "inf" -> <<"i", "n", "f">>
      [] s = EmailRaw -> <<" ", "A", "@", "B", ".", "C", " ">>
      [] s = "1990-01-15" -> <<"1", "9", "9", "0", "-", "0", "1", "-", "1", "5">>

\* ------------------------------------------------------------ builtins

RECURSIVE PyRepr(_), JoinRepr(_, _), JoinItems(_, _)
\* repr(v), used by str() of a list or a dict
PyRepr(v) ==
    CASE v.t = "none" -> "None"
      [] v.t = "int" -> ToString(v.i)
      [] v.t = "bool" -> IF v.b THEN "True" ELSE "False"
      [] v.t = "str" -> "'" \o v.s \o "'"
      [] v.t = "float" -> ToString(v.f) \o ".0"
      [] v.t = "inf" -> "inf"
      [] v.t = "date" -> "datetime.date(" \o v.iso \o ")"
      [] v.t = "datetime" -> "datetime.datetime(" \o v.iso \o ")"
      [] v.t = "list" -> "[" \o JoinRepr(v.l, 1) \o "]"
      [] v.t = "dict" -> "{" \o JoinItems(v.d, 1) \o "}"
JoinRepr(l, j) ==
    IF j > Len(l) THEN ""
    ELSE PyRepr(l[j]) \o (IF j < Len(l) THEN ", " ELSE "") \o JoinRepr(l, j + 1)
JoinItems(d, j) ==
    IF j > Len(d) THEN ""
    ELSE "'" \o d[j][1] \o "': " \o PyRepr(d[j][2])
         \o (IF j < Len(d) THEN ", " ELSE "") \o JoinItems(d, j + 1)

\* str(v)
PyStr(v) ==
    CASE v.t = "str" -> v.s
      [] v.t = "date" -> v.iso
      [] v.t = "datetime" -> v.iso
      [] OTHER -> PyRepr(v)

\* int(v)
PyInt(v) ==
    CASE v.t = "int" -> Ret(IntV(v.i))
      [] v.t = "bool" -> Ret(IntV(IF v.b THEN 1 ELSE 0))
      [] v.t = "float" -> Ret(IntV(v.f))
      [] v.t = "inf" ->
           Raise("OverflowError", <<"cannot convert float infinity to integer">>)
      [] v.t = "str" ->
           IF IsNumeral(v.s) THEN Ret(IntV(NumeralValue(v.s)))
           ELSE Raise("ValueError", <<"invalid literal for int() with base 10: ", PyRepr(v)>>)
      [] OTHER ->
           Raise("TypeError", <<"int() argument must be a string or a real number">>)

\* float(v)
PyFloat(v) ==
    CASE v.t = "int" -> Ret(FloatV(v.i))
      [] v.t = "bool" -> Ret(FloatV(IF v.b THEN 1 ELSE 0))
      [] v.t = "float" -> Ret(v)
      [] v.t = "inf" -> Ret(v)
      [] v.t = "str" ->
           IF IsNumeral(v.s) THEN Ret(FloatV(NumeralValue(v.s)))
           ELSE IF v.s = "inf" THEN Ret(InfV)
           ELSE Raise("ValueError", <<"could not convert string to float: ", PyRepr(v)>>)
      [] OTHER ->
           Raise("TypeError", <<"float() argument must be a string or a real number">>)

\* bool(v): truthiness
PyBool(v) ==
    CASE v.t = "none" -> FALSE
      [] v.t = "int" -> v.i # 0
      [] v.t = "bool" -> v.b
      [] v.t = "float" -> v.f # 0
      [] v.t = "str" -> v.s # ""
      [] v.t = "list" -> v.l # <<>>
      [] v.t = "dict" -> v.d # <<>>
      [] OTHER -> TRUE

\* list(v): the elements of an iterable; a dict iterates over its keys
PyList(v) ==
    CASE v.t = "list" -> Ret(ListV(v.l))
      [] v.t = "str" ->
           Ret(ListV([j \in 1..Len(StrChars(v.s)) |-> StrV(StrChars(v.s)[j])]))
      [] v.t = "dict" -> Ret(ListV([j \in 1..Len(v.d) |-> StrV(v.d[j][1])]))
      [] OTHER -> Raise("TypeError", <<"object is not iterable">>)

\* an element dict() accepts in an iterable: a pair with a text key
IsPair(e) == e.t = "list" /\ Len(e.l) = 2 /\ e.l[1].t = "str"
RECURSIVE FromPairs(_, _, _)
FromPairs(l, j, items) ==
    IF j > Len(l) THEN items
    ELSE FromPairs(l, j + 1, DictSet(items, l[j].l[1].s, l[j].l[2]))
\* dict(v): a copy of a mapping, or the mapping built from an iterable of pairs
PyDict(v) ==
    CASE v.t = "dict" -> Ret(DictV(v.d))
      [] v.t = "list" ->
           IF \A j \in 1..Len(v.l) : IsPair(v.l[j])
           THEN Ret(DictV(FromPairs(v.l, 1, <<>>)))
           ELSE IF \E j \in 1..Len(v.l) : v.l[j].t \in {"list", "str", "dict"}
                                           /\ ~IsPair(v.l[j])
                THEN Raise("ValueError", <<"dictionary update sequence element has the wrong length">>)
                ELSE Raise("TypeError", <<"cannot convert dictionary update sequence element to a sequence">>)
      [] v.t = "str" ->
           IF v.s = "" THEN Ret(DictV(<<>>))
           ELSE Raise("ValueError", <<"dictionary update sequence element #0 has length 1; 2 is required">>)
      [] OTHER -> Raise("TypeError", <<"object is not iterable">>)

\* ------------------------------------------------------------ schema documents
\* A field schema is a record holding the keys the document gives it, among
\* type, source, default, format, items, properties. A `source` text is held
\* as the sequence of its '.'-separated segments, which is what
\* str.split('.') returns: one segment exactly when the text holds no '.'.
\* `properties` is the sequence of its <<name, field schema>> items.

\* d.get(key, dflt) on a schema document
SchemaGet(fs, key, dflt) == IF key \in DOMAIN fs THEN fs[key] ELSE dflt

RECURSIVE PathText(_)
\* the text of a path: its segments joined by '.'
PathText(path) ==
    IF Len(path) = 1 THEN path[1]
    ELSE path[1] \o "." \o PathText(Tail(path))

\* ------------------------------------------------------------ FieldResolver

RECURSIVE Descend(_, _, _)
\* mutant of Descend: `if not value` in place of `if value is None`
DescendFalsy(value, keys, j) ==
    IF j > Len(keys) THEN value
    ELSE IF IsDict(value)
         THEN IF ~PyBool(DictGet(value.d, keys[j])) THEN NoneV
              ELSE Descend(DictGet(value.d, keys[j]), keys, j + 1)
         ELSE NoneV
\* the loop of _get_nested_value over keys[j..]
Descend(value, keys, j) ==
    IF j > Len(keys) THEN value
    ELSE IF IsDict(value)
         THEN IF IsNone(DictGet(value.d, keys[j])) THEN NoneV
              ELSE Descend(DictGet(value.d, keys[j]), keys, j + 1)
         ELSE NoneV

\* mutant of get_nested_value: `data[path]` in place of `data.get(path)`
GetNestedValueIndexes(record, path) ==
    IF Len(path) = 1
    THEN IF IsDict(record)
         THEN IF HasKey(record.d, path[1]) THEN Ret(DictGet(record.d, path[1]))
              ELSE Raise("KeyError", <<path[1]>>)
         ELSE Raise("AttributeError", <<"object has no attribute 'get'">>)
    ELSE Ret(Descend(record, path, 1))

\* _get_nested_value
get_nested_value(record, path) ==
    IF Len(path) = 1
    THEN IF IsDict(record)
         THEN Ret(DictGet(record.d, path[1]))
         ELSE Raise("AttributeError", <<"object has no attribute 'get'">>)
    ELSE Ret(Descend(record, path, 1))

\* ------------------------------------------------------------ TypeCoercer

TypeNames == {"string", "number", "integer", "boolean", "array", "object", "null"}

TYPE_CONVERTERS(target_type, x) ==
    CASE target_type = "string" -> Ret(IF IsNone(x) THEN NoneV ELSE StrV(PyStr(x)))
      [] target_type = "number" -> IF IsNone(x) THEN Ret(NoneV) ELSE PyFloat(x)
      [] target_type = "integer" -> IF IsNone(x) THEN Ret(NoneV) ELSE PyInt(x)
      [] target_type = "boolean" -> Ret(IF IsNone(x) THEN NoneV ELSE BoolV(PyBool(x)))
      [] target_type = "array" -> IF IsNone(x) THEN Ret(ListV(<<>>)) ELSE PyList(x)
      [] target_type = "object" -> IF IsNone(x) THEN Ret(DictV(<<>>)) ELSE PyDict(x)
      [] target_type = "null" -> Ret(NoneV)

\* the try body of _convert_format
FormatBody(value, format_type) ==
    CASE format_type = "date" ->
           IF IsStr(value)
           THEN IF value.s \in IsoDates THEN Ret(DateV(value.s))
                ELSE Raise("ValueError", <<"time data does not match format '%Y-%m-%d'">>)
           ELSE Ret(value)
      [] format_type = "date-time" ->
           IF IsStr(value)
           THEN IF value.s \in IsoDateTimes THEN Ret(DateTimeV(value.s))
                ELSE Raise("ValueError", <<"Invalid isoformat string">>)
           ELSE Ret(value)
      [] format_type = "email" -> Ret(StrV(StrStrip(StrLower(PyStr(value)))))
      [] format_type = "uri" -> Ret(StrV(StrStrip(PyStr(value))))
      [] format_type = "uuid" -> Ret(StrV(StrStrip(PyStr(value))))
      [] OTHER -> Ret(value)

\* the `except Exception` of _convert_format, given what the try body did:
\* the value it was given is returned
FormatHandler(r, value) == IF Raised(r) THEN value ELSE r.v

convert_format(value, format_type) ==
    FormatHandler(FormatBody(value, format_type), value)

\* mutant of ConvertHandler: `except Exception`
ConvertHandlerCatchesAll(r, field_schema) ==
    IF Raised(r) THEN Ret(SchemaGet(field_schema, "default", NoneV)) ELSE r

\* the `except (ValueError, TypeError)` of _convert_type, given what the try
\* body did: any other exception leaves _convert_type
ConvertHandler(r, field_schema) ==
    IF Raised(r) /\ r.exc \in {"ValueError", "TypeError"}
    THEN Ret(SchemaGet(field_schema, "default", NoneV))
    ELSE r

\* the try body of _convert_type
ConvertBody(value, target_type, format_type) ==
    IF IsNone(value) THEN Ret(NoneV)
    ELSE IF format_type # "" THEN Ret(convert_format(value, format_type))
    ELSE IF target_type \in TypeNames THEN TYPE_CONVERTERS(target_type, value)
    ELSE Ret(value)

convert_type(value, target_type, field_schema) ==
    ConvertHandler(ConvertBody(value, target_type,
                               SchemaGet(field_schema, "format", "")),
                   field_schema)

\* ------------------------------------------------------------ ObjectTransformer

RECURSIVE ObjectLoop(_, _, _, _), ObjectStore(_, _, _, _, _)
\* the loop of _transform_object over properties[j..], result so far
ObjectLoop(value, properties, j, result) ==
    IF j > Len(properties) THEN Ret(DictV(result))
    ELSE ObjectStore(value, properties, j, result,
             LET prop_name == properties[j][1]
                 prop_schema == properties[j][2]
                 source_field == PathText(SchemaGet(prop_schema, "source", <<prop_name>>))
             IN  IF ~IsNone(DictGet(value.d, source_field))
                 THEN convert_type(DictGet(value.d, source_field),
                                   SchemaGet(prop_schema, "type", "string"), prop_schema)
                 ELSE Ret(SchemaGet(prop_schema, "default", NoneV)))
\* result[prop_name] = r, unless computing r raised
ObjectStore(value, properties, j, result, r) ==
    IF Raised(r) THEN r
    ELSE ObjectLoop(value, properties, j + 1, DictSet(result, properties[j][1], r.v))

transform_object(value, field_schema) ==
    IF ~IsDict(value) THEN Ret(DictV(<<>>))
    ELSE ObjectLoop(value, SchemaGet(field_schema, "properties", <<>>), 1, <<>>)

\* ------------------------------------------------------------ ArrayTransformer

RECURSIVE ArrayLoop(_, _, _, _, _), ArrayStore(_, _, _, _, _, _)
\* the list comprehensions of _transform_array over value[j..]
ArrayLoop(value, items_schema, as_object, j, result) ==
    IF j > Len(value) THEN Ret(ListV(result))
    ELSE ArrayStore(value, items_schema, as_object, j, result,
             IF as_object THEN transform_object(value[j], items_schema)
             ELSE convert_type(value[j],
                               SchemaGet(items_schema, "type", "string"), items_schema))
\* the element r joins the list, unless computing r raised
ArrayStore(value, items_schema, as_object, j, result, r) ==
    IF Raised(r) THEN r
    ELSE ArrayLoop(value, items_schema, as_object, j + 1, Append(result, r.v))

\* _transform_array after `if not isinstance(value, (list, tuple))`
ArrayItems(seq, items_schema) ==
    ArrayLoop(seq, items_schema,
              SchemaGet(items_schema, "type", "string") = "object"
                  /\ "properties" \in DOMAIN items_schema,
              1, <<>>)

transform_array(value, field_schema) ==
    ArrayItems(IF IsList(value) THEN value.l ELSE <<value>>,
               SchemaGet(field_schema, "items", <<>>))

\* ------------------------------------------------------------ SchemaTransformer

\* The custom transformers a caller registers, by name: "wrap" returns the
\* one-element list holding its argument, "fail" raises.
CustomFns == {"wrap", "fail"}
CallCustom(fn, value) ==
    CASE fn = "wrap" -> Ret(ListV(<<value>>))
      [] fn = "fail" -> Raise("RuntimeError", <<"custom transformer failed">>)

PropertiesOf(sch) == SchemaGet(sch, "properties", <<>>)
RequiredOf(sch) == SchemaGet(sch, "required", {})

\* mutant of FieldValue: a missing value takes the default before the custom
\* transformer is looked at
FieldValueDefaultFirst(field_name, field_schema, got, sch, st, ct) ==
    IF Raised(got) THEN got
    ELSE IF IsNone(got.v) /\ "default" \in DOMAIN field_schema
         THEN Ret(field_schema.default)
    ELSE IF field_name \in DOMAIN ct THEN CallCustom(ct[field_name], got.v)
    ELSE IF IsNone(got.v)
         THEN IF field_name \in RequiredOf(sch) /\ st
              THEN Raise("ValidationError",
                         <<"Required field '", field_name, "' is missing">>)
              ELSE Ret(NoneV)
    ELSE IF SchemaGet(field_schema, "type", "string") = "array"
         THEN transform_array(got.v, field_schema)
    ELSE IF SchemaGet(field_schema, "type", "string") = "object"
         THEN transform_object(got.v, field_schema)
    ELSE convert_type(got.v, SchemaGet(field_schema, "type", "string"), field_schema)

\* mutant of FieldValue: a missing value is null, whatever the declared default
FieldValueNoDefault(field_name, field_schema, got, sch, st, ct) ==
    IF Raised(got) THEN got
    ELSE IF field_name \in DOMAIN ct THEN CallCustom(ct[field_name], got.v)
    ELSE IF IsNone(got.v)
         THEN IF field_name \in RequiredOf(sch) /\ st
              THEN Raise("ValidationError",
                         <<"Required field '", field_name, "' is missing">>)
              ELSE Ret(NoneV)
    ELSE IF SchemaGet(field_schema, "type", "string") = "array"
         THEN transform_array(got.v, field_schema)
    ELSE IF SchemaGet(field_schema, "type", "string") = "object"
         THEN transform_object(got.v, field_schema)
    ELSE convert_type(got.v, SchemaGet(field_schema, "type", "string"), field_schema)

\* mutant of FieldValue: `if not value` in place of `if value is None`
FieldValueFalsyMissing(field_name, field_schema, got, sch, st, ct) ==
    IF Raised(got) THEN got
    ELSE IF field_name \in DOMAIN ct THEN CallCustom(ct[field_name], got.v)
    ELSE IF ~PyBool(got.v)
         THEN IF "default" \in DOMAIN field_schema THEN Ret(field_schema.default)
              ELSE IF field_name \in RequiredOf(sch) /\ st
                   THEN Raise("ValidationError",
                              <<"Required field '", field_name, "' is missing">>)
                   ELSE Ret(NoneV)
    ELSE IF SchemaGet(field_schema, "type", "string") = "array"
         THEN transform_array(got.v, field_schema)
    ELSE IF SchemaGet(field_schema, "type", "string") = "object"
         THEN transform_object(got.v, field_schema)
    ELSE convert_type(got.v, SchemaGet(field_schema, "type", "string"), field_schema)

\* _transform_field once the source value is resolved (got): the custom
\* transformer, the missing value, the dispatch on the declared type
FieldValue(field_name, field_schema, got, sch, st, ct) ==
    IF Raised(got) THEN got
    ELSE IF field_name \in DOMAIN ct THEN CallCustom(ct[field_name], got.v)
    ELSE IF IsNone(got.v)
         THEN IF "default" \in DOMAIN field_schema THEN Ret(field_schema.default)
              ELSE IF field_name \in RequiredOf(sch) /\ st
                   THEN Raise("ValidationError",
                              <<"Required field '", field_name, "' is missing">>)
                   ELSE Ret(NoneV)
    ELSE IF SchemaGet(field_schema, "type", "string") = "array"
         THEN transform_array(got.v, field_schema)
    ELSE IF SchemaGet(field_schema, "type", "string") = "object"
         THEN transform_object(got.v, field_schema)
    ELSE convert_type(got.v, SchemaGet(field_schema, "type", "string"), field_schema)

\* _transform_field
transform_field(field_name, field_schema, record, sch, st, ct) ==
    FieldValue(field_name, field_schema,
               get_nested_value(record, SchemaGet(field_schema, "source", <<field_name>>)),
               sch, st, ct)

RECURSIVE SingleLoop(_, _, _, _, _, _), FieldHandler(_, _, _, _, _, _, _)
\* mutant of FieldHandler: a field that failed is left out of the result
FieldHandlerDropsFailed(record, sch, st, ct, j, result, r) ==
    IF Returned(r)
    THEN SingleLoop(record, sch, st, ct, j + 1,
                    DictSet(result, PropertiesOf(sch)[j][1], r.v))
    ELSE IF PropertiesOf(sch)[j][1] \in RequiredOf(sch) /\ st
         THEN Raise("ValidationError",
                    <<"Required field '", PropertiesOf(sch)[j][1],
                      "' transformation failed: ">> \o r.msg)
         ELSE SingleLoop(record, sch, st, ct, j + 1, result)
\* mutant of FieldHandler: a strict transformer raises for any failed field
FieldHandlerStrictRaises(record, sch, st, ct, j, result, r) ==
    IF Returned(r)
    THEN SingleLoop(record, sch, st, ct, j + 1,
                    DictSet(result, PropertiesOf(sch)[j][1], r.v))
    ELSE IF st
         THEN Raise("ValidationError",
                    <<"Required field '", PropertiesOf(sch)[j][1],
                      "' transformation failed: ">> \o r.msg)
         ELSE SingleLoop(record, sch, st, ct, j + 1,
                         DictSet(result, PropertiesOf(sch)[j][1],
                                 SchemaGet(PropertiesOf(sch)[j][2], "default", NoneV)))
\* mutant of FieldHandler: a failed field takes its default, required or not
FieldHandlerIgnoresRequired(record, sch, st, ct, j, result, r) ==
    IF Returned(r)
    THEN SingleLoop(record, sch, st, ct, j + 1,
                    DictSet(result, PropertiesOf(sch)[j][1], r.v))
    ELSE SingleLoop(record, sch, st, ct, j + 1,
                    DictSet(result, PropertiesOf(sch)[j][1],
                            SchemaGet(PropertiesOf(sch)[j][2], "default", NoneV)))

\* the loop of _transform_single over properties[j..], result so far
SingleLoop(record, sch, st, ct, j, result) ==
    IF j > Len(PropertiesOf(sch)) THEN Ret(DictV(result))
    ELSE FieldHandler(record, sch, st, ct, j, result,
                      transform_field(PropertiesOf(sch)[j][1], PropertiesOf(sch)[j][2],
                                      record, sch, st, ct))
\* the loop body's try/except, given what _transform_field did (r)
FieldHandler(record, sch, st, ct, j, result, r) ==
    LET field_name == PropertiesOf(sch)[j][1]
        field_schema == PropertiesOf(sch)[j][2]
    IN  IF Returned(r)
        THEN SingleLoop(record, sch, st, ct, j + 1, DictSet(result, field_name, r.v))
        ELSE IF field_name \in RequiredOf(sch) /\ st
             THEN Raise("ValidationError",
                        <<"Required field '", field_name,
                          "' transformation failed: ">> \o r.msg)
             ELSE SingleLoop(record, sch, st, ct, j + 1,
                             DictSet(result, field_name,
                                     SchemaGet(field_schema, "default", NoneV)))

\* the outer `except Exception` of _transform_single
SingleHandler(r) ==
    IF Raised(r)
    THEN Raise("ValidationError", <<"Data transformation failed: ">> \o r.msg)
    ELSE r

\* _transform_single
transform_single(record, sch, st, ct) ==
    SingleHandler(SingleLoop(record, sch, st, ct, 1, <<>>))

\* ------------------------------------------------------------ bounded inputs

NoKeys == [x \in {} |-> x]
\* the document {key: val} when present, {} otherwise
Opt(key, present, val) == IF present THEN key :> val ELSE NoKeys

\* field `a`: a scalar type, with or without a default and a dotted source
FieldSchemasA ==
    {[type |-> ty] @@ Opt("default", hasDefault, IntV(0))
                   @@ Opt("source", hasSource, <<"u", "x">>) :
        ty \in {"integer", "string"}, hasDefault \in BOOLEAN, hasSource \in BOOLEAN}
FieldSchemaB == [type |-> "integer"]

Schemas ==
    {[type |-> "object", properties |-> props, required |-> req] :
        props \in UNION {{<<<<"a", fa>>, <<"b", FieldSchemaB>>>>,
                          <<<<"b", FieldSchemaB>>, <<"a", fa>>>>} : fa \in FieldSchemasA},
        req \in {{}, {"a"}, {"a", "b"}}}

\* the dict with the given optional entries, in the order a, b, u
RecordOf(hasA, va, hasB, vb, hasU, vu) ==
    DictV((IF hasA THEN <<<<"a", va>>>> ELSE <<>>)
          \o (IF hasB THEN <<<<"b", vb>>>> ELSE <<>>)
          \o (IF hasU THEN <<<<"u", vu>>>> ELSE <<>>))

ValuesA == {IntV(5), StrV("abc"), InfV, NoneV}
ValuesU == {DictV(<<<<"x", StrV("5")>>>>), DictV(<<<<"x", NoneV>>>>), IntV(3)}
Records ==
    {RecordOf(hasA, va, hasB, StrV("7"), hasU, vu) :
        hasA \in BOOLEAN, va \in ValuesA, hasB \in BOOLEAN,
        hasU \in BOOLEAN, vu \in ValuesU}

\* the records batches are made of, and the longest batch
BatchRecords ==
    {RecordOf(TRUE, IntV(5), TRUE, StrV("7"), TRUE, DictV(<<<<"x", StrV("5")>>>>)),
     RecordOf(FALSE, NoneV, FALSE, NoneV, FALSE, NoneV)}
MaxBatch == 3
Batches == UNION {[1..n -> BatchRecords] : n \in 0..MaxBatch}

\* ------------------------------------------------------------ state machine
\* schema, strict, custom_transformers: the SchemaTransformer instance.
\* pc, data, idx, acc: one call of transform (its argument, the position of
\* the list comprehension and the list built so far); outcome: what the call
\* returned or raised; calls: how many times the call ran _transform_single.
\* heap: the objects that are reached through more than one reference, by
\* address; schemas: the dict of a SchemaRegistry. Both are empty where a
\* specification has no such object.

Init ==
    /\ schema \in Schemas
    /\ strict \in BOOLEAN
    /\ custom_transformers = NoKeys
    /\ pc = "idle"
    /\ data = NoneV
    /\ idx = 0
    /\ acc = <<>>
    /\ outcome = NoneV
    /\ calls = 0
    /\ fin = NoneV
    /\ fout = NoneV
    /\ heap = <<>>
    /\ schemas = <<>>

\* add_custom_transformer(field_name, transformer)
add_custom_transformer(field_name, transformer) ==
    /\ pc = "idle"
    /\ custom_transformers' =
           [f \in DOMAIN custom_transformers \cup {field_name} |->
               IF f = field_name THEN transformer ELSE custom_transformers[f]]
    /\ UNCHANGED <<schema, strict, pc, data, idx, acc, outcome, calls, fin, fout, heap, schemas>>

\* transform(data) with a single record
TransformRecord(record) ==
    /\ pc = "idle"
    /\ data' = record
    /\ outcome' = transform_single(record, schema, strict, custom_transformers)
    /\ calls' = 1
    /\ pc' = "returned"
    /\ UNCHANGED <<schema, strict, custom_transformers, idx, acc, fin, fout, heap, schemas>>

\* transform(data) with a list: the list comprehension starts
TransformList(batch) ==
    /\ pc = "idle"
    /\ data' = ListV(batch)
    /\ idx' = 1
    /\ acc' = <<>>
    /\ calls' = 0
    /\ pc' = "loop"
    /\ UNCHANGED <<schema, strict, custom_transformers, outcome, fin, fout, heap, schemas>>

\* mutant of TransformItem: the new mapping is put in front of the list
TransformItemPrepends ==
    /\ pc = "loop"
    /\ idx <= Len(data.l)
    /\ \E r \in {transform_single(data.l[idx], schema, strict, custom_transformers)} :
           /\ calls' = calls + 1
           /\ IF Returned(r)
              THEN /\ acc' = <<r.v>> \o acc
                   /\ idx' = idx + 1
                   /\ UNCHANGED <<pc, outcome>>
              ELSE /\ outcome' = r
                   /\ pc' = "returned"
                   /\ acc' = <<>>
                   /\ UNCHANGED idx
    /\ UNCHANGED <<schema, strict, custom_transformers, data, fin, fout, heap, schemas>>

\* mutant of TransformItem: a record that fails is skipped and the loop goes on
TransformItemSkipsFailed ==
    /\ pc = "loop"
    /\ idx <= Len(data.l)
    /\ \E r \in {transform_single(data.l[idx], schema, strict, custom_transformers)} :
           /\ calls' = calls + 1
           /\ idx' = idx + 1
           /\ acc' = IF Returned(r) THEN Append(acc, r.v) ELSE acc
           /\ UNCHANGED <<pc, outcome>>
    /\ UNCHANGED <<schema, strict, custom_transformers, data, fin, fout, heap, schemas>>

\* one iteration of the list comprehension: an exception leaves transform and
\* the list built so far is dropped with the frame
TransformItem ==
    /\ pc = "loop"
    /\ idx <= Len(data.l)
    /\ \E r \in {transform_single(data.l[idx], schema, strict, custom_transformers)} :
           /\ calls' = calls + 1
           /\ IF Returned(r)
              THEN /\ acc' = Append(acc, r.v)
                   /\ idx' = idx + 1
                   /\ UNCHANGED <<pc, outcome>>
              ELSE /\ outcome' = r
                   /\ pc' = "returned"
                   /\ acc' = <<>>
                   /\ UNCHANGED idx
    /\ UNCHANGED <<schema, strict, custom_transformers, data, fin, fout, heap, schemas>>

\* the list comprehension is exhausted: transform returns the list
TransformListReturn ==
    /\ pc = "loop"
    /\ idx > Len(data.l)
    /\ outcome' = Ret(ListV(acc))
    /\ pc' = "returned"
    /\ UNCHANGED <<schema, strict, custom_transformers, data, idx, acc, calls, fin, fout, heap, schemas>>

\* the caller is done with the result; the call's frame is gone
CallerContinues ==
    /\ pc = "returned"
    /\ pc' = "idle"
    /\ data' = NoneV
    /\ idx' = 0
    /\ acc' = <<>>
    /\ outcome' = NoneV
    /\ calls' = 0
    /\ UNCHANGED <<schema, strict, custom_transformers, fin, fout, heap, schemas>>

Next ==
    \/ \E f \in {"a", "b"}, fn \in CustomFns : add_custom_transformer(f, fn)
    \/ \E record \in Records : TransformRecord(record)
    \/ \E batch \in Batches : TransformList(batch)
    \/ TransformItem
    \/ TransformListReturn
    \/ CallerContinues

Spec == Init /\ [][Next]_vars

\* ------------------------------------------------------------ TypeCoercer alone
\* convert_type applied to one (value, type, field schema) drawn by CoerceInit

CoerceValues ==
    {NoneV, IntV(0), IntV(5), BoolV(TRUE), FloatV(2), InfV,
     StrV(""), StrV("5"), StrV("abc"), StrV("1990-01-15"), StrV(EmailRaw),
     ListV(<<IntV(1)>>), DictV(<<<<"x", IntV(1)>>>>)}
CoerceTypes == TypeNames \cup {"decimal"}
CoerceFormats == {"date", "date-time", "email", "uri", "uuid", "phone"}
CoerceSchemas ==
    {[type |-> ty] @@ Opt("default", hasDefault, StrV("dflt")) @@ Opt("format", hasFormat, fmt) :
        ty \in CoerceTypes, hasDefault \in BOOLEAN,
        hasFormat \in BOOLEAN, fmt \in CoerceFormats}

CoerceInit ==
    /\ fin \in {[value |-> v, field_schema |-> fs] : v \in CoerceValues, fs \in CoerceSchemas}
    /\ fout = NoneV
    /\ pc = "call"
    /\ schema = NoKeys /\ strict = FALSE /\ custom_transformers = NoKeys
    /\ data = NoneV /\ idx = 0 /\ acc = <<>> /\ outcome = NoneV /\ calls = 0
    /\ heap = <<>> /\ schemas = <<>>

Coerce ==
    /\ pc = "call"
    /\ fout' = convert_type(fin.value, fin.field_schema.type, fin.field_schema)
    /\ pc' = "done"
    /\ UNCHANGED <<schema, strict, custom_transformers, data, idx, acc, outcome, calls, fin, heap, schemas>>

SpecCoerce == CoerceInit /\ [][Coerce]_vars

\* ------------------------------------------------------------ FieldResolver alone
\* get_nested_value applied to one (record, path) drawn by ResolveInit

Segments == {"a", "b"}
Leaves == {NoneV, IntV(0), StrV("v")}
MaxDepth == 3
MaxPath == 3
RECURSIVE NestedValues(_)
\* the values nested at most n mappings deep
NestedValues(n) ==
    IF n = 0 THEN Leaves
    ELSE Leaves \cup {DictV(<<>>)}
         \cup {DictV(<<<<k, v>>>>) : k \in Segments, v \in NestedValues(n - 1)}
         \cup {DictV(<<<<"a", v>>, <<"b", IntV(7)>>>>) : v \in NestedValues(n - 1)}
Paths == UNION {[1..n -> Segments] : n \in 1..MaxPath}

ResolveInit ==
    /\ fin \in {[record |-> r, path |-> p] : r \in NestedValues(MaxDepth), p \in Paths}
    /\ fout = NoneV
    /\ pc = "call"
    /\ schema = NoKeys /\ strict = FALSE /\ custom_transformers = NoKeys
    /\ data = NoneV /\ idx = 0 /\ acc = <<>> /\ outcome = NoneV /\ calls = 0
    /\ heap = <<>> /\ schemas = <<>>

Resolve ==
    /\ pc = "call"
    /\ fout' = get_nested_value(fin.record, fin.path)
    /\ pc' = "done"
    /\ UNCHANGED <<schema, strict, custom_transformers, data, idx, acc, outcome, calls, fin, heap, schemas>>

SpecResolve == ResolveInit /\ [][Resolve]_vars

\* ------------------------------------------------------------ transform as a whole

RECURSIVE TransformLoop(_, _, _, _, _, _), TransformStore(_, _, _, _, _, _, _)
\* the list comprehension of transform over items[j..], list built so far
TransformLoop(items, sch, st, ct, j, result) ==
    IF j > Len(items) THEN Ret(ListV(result))
    ELSE TransformStore(items, sch, st, ct, j, result,
                        transform_single(items[j], sch, st, ct))
\* the mapping r joins the list, unless _transform_single raised
TransformStore(items, sch, st, ct, j, result, r) ==
    IF Raised(r) THEN r
    ELSE TransformLoop(items, sch, st, ct, j + 1, Append(result, r.v))

\* transform(data)
transform(d, sch, st, ct) ==
    IF IsList(d) THEN TransformLoop(d.l, sch, st, ct, 1, <<>>)
    ELSE transform_single(d, sch, st, ct)

\* ------------------------------------------------------------ validate

\* mutant of ValidateHandler: no except clause
ValidateHandlerNoCatch(r) ==
    IF Returned(r) THEN Ret(BoolV(TRUE)) ELSE r

\* the try/except of validate, given what transform did: True when it
\* returned, False for a ValidationError, any other exception leaves validate
ValidateHandler(r) ==
    IF Returned(r) THEN Ret(BoolV(TRUE))
    ELSE IF r.exc = "ValidationError" THEN Ret(BoolV(FALSE))
    ELSE r

\* what callers pass to validate: a record, a list of records, None
ValidateInputs == Records \cup {ListV(batch) : batch \in Batches} \cup {NoneV}

\* validate(d)
validate(d) ==
    /\ pc = "idle"
    /\ data' = d
    /\ outcome' = ValidateHandler(transform(d, schema, strict, custom_transformers))
    /\ pc' = "returned"
    /\ UNCHANGED <<schema, strict, custom_transformers, idx, acc, calls, fin, fout,
                   heap, schemas>>

ValidateNext ==
    \/ \E f \in {"a", "b"}, fn \in CustomFns : add_custom_transformer(f, fn)
    \/ \E d \in ValidateInputs : validate(d)
    \/ CallerContinues

SpecValidate == Init /\ [][ValidateNext]_vars

\* ------------------------------------------------------------ shared objects
\* Python hands objects around by reference. Where an object is reached through
\* more than one reference (a default held by the schema document, an input
\* record held by the caller) it lives in `heap` and RefV(a) is a reference to
\* heap[a]; a list or dict written in line is an object nothing else refers to.

RefV(a) == [t |-> "ref", a |-> a]
IsRef(v) == v.t = "ref"

RECURSIVE Load(_, _)
\* the value a reference graph holds, every reference followed
Load(h, v) ==
    CASE v.t = "ref" -> Load(h, h[v.a])
      [] v.t = "list" -> ListV([j \in 1..Len(v.l) |-> Load(h, v.l[j])])
      [] v.t = "dict" -> DictV([j \in 1..Len(v.d) |-> <<v.d[j][1], Load(h, v.d[j][2])>>])
      [] OTHER -> v

\* heap of the sharing specification: the two mutable defaults of the schema
\* document, then the caller's records (the second holds a nested mapping)
DefaultList == 1
DefaultDict == 2
RecordEmpty == 3
RecordFull == 4
RecordNested == 5
ShareHeap ==
    <<ListV(<<>>),
      DictV(<<>>),
      DictV(<<>>),
      DictV(<<<<"status", StrV("ok")>>, <<"u", RefV(RecordNested)>>>>),
      DictV(<<<<"x", StrV("5")>>>>)>>

ShareSchemas ==
    {[type |-> "object",
      properties |->
          <<<<"status", [type |-> "string", default |-> StrV("pending")]>>,
            <<"tags", [type |-> "array", default |-> RefV(DefaultList)]>>,
            <<"meta", [type |-> "object", default |-> RefV(DefaultDict)]>>,
            <<"n", [type |-> "integer", source |-> <<"u", "x">>]>>>>,
      required |-> req] : req \in {{"n"}}}

\* what callers pass to transform: a record, or a list of two records
ShareInputs ==
    {RefV(RecordEmpty), RefV(RecordFull),
     ListV(<<RefV(RecordFull), RefV(RecordFull)>>)}

\* the transform calls and the changes callers make in one behaviour
MaxCalls == 3
MaxChanges == 1

\* acc: the output records callers hold, oldest first; calls: the transform
\* calls so far; idx: the changes callers made so far; fout: for every call,
\* what transform was given and what it returned, as they were at the return
ShareInit ==
    /\ schema \in ShareSchemas
    /\ strict \in BOOLEAN
    /\ custom_transformers = NoKeys
    /\ heap = ShareHeap
    /\ pc = "idle"
    /\ data = NoneV
    /\ idx = 0
    /\ acc = <<>>
    /\ outcome = NoneV
    /\ calls = 0
    /\ fin = NoneV
    /\ fout = <<>>
    /\ schemas = <<>>

\* the view a call has of the schema document: every declared default
SchemaView(h, sch) ==
    [j \in 1..Len(PropertiesOf(sch)) |->
        Load(h, SchemaGet(PropertiesOf(sch)[j][2], "default", NoneV))]

\* the output records a call hands to its caller
OutputsOf(r) ==
    IF Raised(r) THEN <<>> ELSE IF IsList(r.v) THEN r.v.l ELSE <<r.v>>

\* mutant of ShareTransform: every output field is also stored in the record
\* the call was given (data[field_name] = value)
ShareTransformWritesInput(d) ==
    /\ pc = "idle"
    /\ calls < MaxCalls
    /\ data' = d
    /\ calls' = calls + 1
    /\ \E r \in {transform(Load(heap, d), schema, strict, custom_transformers)} :
           /\ outcome' = r
           /\ acc' = acc \o OutputsOf(r)
           /\ fout' = Append(fout, [registry |-> custom_transformers,
                                    view |-> SchemaView(heap, schema),
                                    input |-> Load(heap, d),
                                    output |-> IF Raised(r) THEN r
                                               ELSE Ret(Load(heap, r.v))])
           /\ heap' = IF IsRef(d) /\ Returned(r)
                      THEN [heap EXCEPT ![d.a] = r.v] ELSE heap
    /\ fin' = NoneV
    /\ UNCHANGED <<schema, strict, custom_transformers, pc, idx, schemas>>

\* one call transform(d): the records are read through their references, the
\* result is built from new objects and from the values _transform_field
\* returns as they are
ShareTransform(d) ==
    /\ pc = "idle"
    /\ calls < MaxCalls
    /\ data' = d
    /\ calls' = calls + 1
    /\ \E r \in {transform(Load(heap, d), schema, strict, custom_transformers)} :
           /\ outcome' = r
           /\ acc' = acc \o OutputsOf(r)
           /\ fout' = Append(fout, [registry |-> custom_transformers,
                                    view |-> SchemaView(heap, schema),
                                    input |-> Load(heap, d),
                                    output |-> IF Raised(r) THEN r
                                               ELSE Ret(Load(heap, r.v))])
    /\ fin' = NoneV
    /\ UNCHANGED <<schema, strict, custom_transformers, pc, idx, heap, schemas>>

\* what a caller makes of a list or a dict it changes in place
ChangedInPlace(obj) ==
    IF IsList(obj) THEN ListV(Append(obj.l, IntV(1)))
    ELSE DictV(DictSet(obj.d, "k", IntV(1)))

\* a caller changes the value of field j in the k-th output record it holds:
\* out[name].append(1) on a list, out[name]['k'] = 1 on a dict, and
\* out[name] = 'changed' on any other value
CallerChanges(k, j) ==
    /\ pc = "idle"
    /\ idx < MaxChanges
    /\ k \in 1..Len(acc)
    /\ j \in 1..Len(acc[k].d)
    /\ idx' = idx + 1
    /\ fin' = [output |-> k, field |-> acc[k].d[j][1]]
    /\ \E v \in {acc[k].d[j][2]} :
           IF IsRef(v)
           THEN /\ heap' = [heap EXCEPT ![v.a] = ChangedInPlace(heap[v.a])]
                /\ UNCHANGED acc
           ELSE /\ acc' = [acc EXCEPT ![k] =
                              DictV(DictSet(acc[k].d, acc[k].d[j][1],
                                            IF IsList(v) \/ IsDict(v)
                                            THEN ChangedInPlace(v)
                                            ELSE StrV("changed")))]
                /\ UNCHANGED heap
    /\ UNCHANGED <<schema, strict, custom_transformers, pc, data, outcome, calls,
                   fout, schemas>>

ShareNext ==
    \/ add_custom_transformer("status", "wrap")
    \/ \E d \in ShareInputs : ShareTransform(d)
    \/ \E k \in 1..(2 * MaxCalls), j \in 1..3 : CallerChanges(k, j)

SpecShare == ShareInit /\ [][ShareNext]_vars

\* ------------------------------------------------------------ transform applied twice
\* transform applied to a record and then to its own output, under an identity
\* schema: one field `f` whose source is its own name

\* the declared shapes of field f, each with a default of its own type
IdemShapes ==
    {<<[type |-> "integer"], IntV(0)>>,
     <<[type |-> "number"], FloatV(0)>>,
     <<[type |-> "string"], StrV("pending")>>,
     <<[type |-> "boolean"], BoolV(FALSE)>>,
     <<[type |-> "string", format |-> "email"], StrV("a@b.c")>>,
     <<[type |-> "string", format |-> "date"], StrV("1990-01-15")>>,
     <<[type |-> "array", items |-> [type |-> "integer"]], ListV(<<>>)>>,
     <<[type |-> "array",
        items |-> [type |-> "object",
                   properties |-> <<<<"x", [type |-> "integer"]>>>>]],
       ListV(<<>>)>>,
     <<[type |-> "object", properties |-> <<<<"x", [type |-> "integer"]>>>>],
       DictV(<<<<"x", IntV(0)>>>>)>>}

IdemSchemas ==
    {[type |-> "object",
      properties |-> <<<<"f", shape[1] @@ [source |-> <<"f">>]
                                       @@ Opt("default", hasDefault, shape[2])>>>>,
      required |-> req] :
        shape \in IdemShapes, hasDefault \in BOOLEAN, req \in {{}, {"f"}}}

IdemValues ==
    {IntV(5), FloatV(2), InfV, BoolV(TRUE), StrV("5"), StrV("abc"), StrV(EmailRaw),
     StrV("1990-01-15"), ListV(<<StrV("5"), StrV("abc")>>), ListV(<<IntV(5)>>),
     DictV(<<<<"x", StrV("5")>>, <<"y", IntV(1)>>>>), DictV(<<>>)}
IdemRecords == {DictV(<<>>)} \cup {DictV(<<<<"f", v>>>>) : v \in IdemValues}

IdemInit ==
    /\ schema \in IdemSchemas
    /\ strict \in BOOLEAN
    /\ custom_transformers = NoKeys
    /\ data \in IdemRecords
    /\ pc = "call"
    /\ idx = 0 /\ acc = <<>> /\ outcome = NoneV /\ calls = 0
    /\ fin = NoneV /\ fout = NoneV
    /\ heap = <<>> /\ schemas = <<>>

\* out = transform(data)
IdemFirst ==
    /\ pc = "call"
    /\ outcome' = transform(data, schema, strict, custom_transformers)
    /\ pc' = "once"
    /\ UNCHANGED <<schema, strict, custom_transformers, data, idx, acc, calls,
                   fin, fout, heap, schemas>>

\* transform(out)
IdemSecond ==
    /\ pc = "once"
    /\ Returned(outcome)
    /\ fout' = transform(outcome.v, schema, strict, custom_transformers)
    /\ pc' = "twice"
    /\ UNCHANGED <<schema, strict, custom_transformers, data, idx, acc, outcome,
                   calls, fin, heap, schemas>>

SpecIdem == IdemInit /\ [][IdemFirst \/ IdemSecond]_vars

\* ------------------------------------------------------------ ArrayTransformer alone
\* transform_array applied to one (value, field schema) drawn by ArrayInit

ArrayElements == {IntV(1), StrV("5"), StrV("abc"), InfV, DictV(<<<<"x", StrV("5")>>>>)}
MaxItems == 3
ArrayValues ==
    {ListV(l) : l \in UNION {[1..n -> ArrayElements] : n \in 0..MaxItems}}
    \cup {IntV(5), StrV("abc"), DictV(<<<<"x", StrV("5")>>>>)}
ItemsSchemas ==
    {[type |-> "integer"],
     [type |-> "integer", default |-> IntV(0)],
     [type |-> "string"],
     [type |-> "string", format |-> "date", default |-> StrV("dflt")],
     [type |-> "object", properties |-> <<<<"x", [type |-> "integer"]>>>>],
     [type |-> "object"],
     NoKeys}
ArraySchemas ==
    {[type |-> "array"]} \cup {[type |-> "array", items |-> it] : it \in ItemsSchemas}

ArrayInit ==
    /\ fin \in {[value |-> v, field_schema |-> fs] : v \in ArrayValues, fs \in ArraySchemas}
    /\ fout = NoneV
    /\ pc = "call"
    /\ schema = NoKeys /\ strict = FALSE /\ custom_transformers = NoKeys
    /\ data = NoneV /\ idx = 0 /\ acc = <<>> /\ outcome = NoneV /\ calls = 0
    /\ heap = <<>> /\ schemas = <<>>

TransformArray ==
    /\ pc = "call"
    /\ fout' = transform_array(fin.value, fin.field_schema)
    /\ pc' = "done"
    /\ UNCHANGED <<schema, strict, custom_transformers, data, idx, acc, outcome,
                   calls, fin, heap, schemas>>

SpecArray == ArrayInit /\ [][TransformArray]_vars

\* ------------------------------------------------------------ ObjectTransformer alone
\* transform_object applied to one (value, field schema) drawn by ObjectInit

\* the declared nested properties: a renamed one, one with a default, and a
\* nested object with properties of its own
ObjectProperties ==
    {<<<<"x", [type |-> "integer", source |-> <<"sx">>]>>,
       <<"y", [type |-> "integer", default |-> IntV(7)]>>>>,
     <<<<"y", [type |-> "integer", default |-> IntV(7)]>>,
       <<"inner", [type |-> "object",
                   properties |-> <<<<"id", [type |-> "integer"]>>>>]>>>>,
     <<<<"x", [type |-> "string"]>>>>}
ObjectSchemas ==
    {[type |-> "object", properties |-> props] @@ Opt("default", hasDefault,
                                                      DictV(<<<<"y", IntV(0)>>>>)) :
        props \in ObjectProperties, hasDefault \in BOOLEAN}

ObjectLeaves == {StrV("5"), StrV("abc"), IntV(3), InfV}
InnerValues ==
    {DictV(<<<<"id", StrV("5")>>, <<"extra", IntV(2)>>>>), DictV(<<>>), IntV(3)}
\* the mapping with the given optional entries, in the order x, sx, y, inner
MappingOf(hasX, vx, hasSx, vsx, hasY, vy, hasInner, vi) ==
    DictV((IF hasX THEN <<<<"x", vx>>>> ELSE <<>>)
          \o (IF hasSx THEN <<<<"sx", vsx>>>> ELSE <<>>)
          \o (IF hasY THEN <<<<"y", vy>>>> ELSE <<>>)
          \o (IF hasInner THEN <<<<"inner", vi>>>> ELSE <<>>))
ObjectValues ==
    {MappingOf(hasX, StrV("9"), hasSx, vsx, hasY, vy, hasInner, vi) :
        hasX \in BOOLEAN, hasSx \in BOOLEAN, vsx \in ObjectLeaves,
        hasY \in BOOLEAN, vy \in {StrV("5"), NoneV}, hasInner \in BOOLEAN,
        vi \in InnerValues}
    \cup {NoneV, IntV(5), StrV("abc"), ListV(<<IntV(1)>>)}

ObjectInit ==
    /\ fin \in {[value |-> v, field_schema |-> fs] : v \in ObjectValues, fs \in ObjectSchemas}
    /\ fout = NoneV
    /\ pc = "call"
    /\ schema = NoKeys /\ strict = FALSE /\ custom_transformers = NoKeys
    /\ data = NoneV /\ idx = 0 /\ acc = <<>> /\ outcome = NoneV /\ calls = 0
    /\ heap = <<>> /\ schemas = <<>>

TransformObject ==
    /\ pc = "call"
    /\ fout' = transform_object(fin.value, fin.field_schema)
    /\ pc' = "done"
    /\ UNCHANGED <<schema, strict, custom_transformers, data, idx, acc, outcome,
                   calls, fin, heap, schemas>>

SpecObject == ObjectInit /\ [][TransformObject]_vars

\* ------------------------------------------------------------ SchemaRegistry
\* heap holds the SchemaTransformer instances, in the order they were built;
\* schemas is the registry's dict, <<name, reference to an instance>> items;
\* fin is the last call made and outcome what it returned or raised; fout is
\* the list of the register calls that returned, oldest first.

\* SchemaTransformer(schema, strict): a new instance
NewTransformer(sch, st) ==
    [t |-> "transformer", schema |-> sch, strict |-> st, custom_transformers |-> NoKeys]

\* the schema files that exist, by path: the syntax their text is written in
\* and the document that text denotes. "yaml" is YAML in block style, which is
\* not JSON text; flow.yaml is a YAML file written in flow style, which is.
SchemaFileDoc ==
    [type |-> "object",
     properties |-> <<<<"a", [type |-> "string", default |-> StrV("none")]>>>>]
SchemaFiles ==
    [path \in {"ok.json", "ok.yaml", "flow.yaml"} |->
        [syntax |-> IF path = "ok.yaml" THEN "yaml" ELSE "json",
         doc |-> SchemaFileDoc]]

\* json.load(f): the document of JSON text, JSONDecodeError for any other text
json_load(file) ==
    IF file.syntax = "json" THEN Ret(file.doc)
    ELSE Raise("JSONDecodeError", <<"Expecting value: line 1 column 1 (char 0)">>)

\* SchemaTransformer.from_file(schema_path, strict) up to the constructor call:
\* the document read
from_file(schema_path) ==
    IF schema_path \notin DOMAIN SchemaFiles
    THEN Raise("FileNotFoundError", <<"Schema file not found: ", schema_path>>)
    ELSE json_load(SchemaFiles[schema_path])

\* isinstance(schema, str): a path, as opposed to a schema document
IsPath(x) == "s" \in DOMAIN x

\* what callers pass to register as schema, to transform as data, and as names
RegisterArgs ==
    {<<[type |-> "object", properties |-> <<<<"a", [type |-> "integer"]>>>>,
        required |-> {"a"}], TRUE>>,
     <<StrV("ok.json"), FALSE>>,
     <<StrV("ok.yaml"), FALSE>>,
     <<StrV("missing.json"), FALSE>>}
RegistryData ==
    {ListV(<<DictV(<<<<"a", StrV("5")>>>>), DictV(<<>>)>>)}
RegistryNames == {"n1", "n2"}
\* what callers register as custom transformers, by field
RegistryCustoms == {<<"a", "wrap">>, <<"a", "fail">>, <<"b", "wrap">>}
\* the instances callers add custom transformers to: the first two built
CustomisedInstances == {1, 2}
\* the instances built and the custom transformers added in one behaviour
MaxInstances == 3
MaxAdds == 2

RegistryInit ==
    /\ schemas = <<>>
    /\ heap = <<>>
    /\ fin = NoneV
    /\ outcome = NoneV
    /\ fout = <<>>
    /\ pc = "idle"
    /\ schema = NoKeys /\ strict = FALSE /\ custom_transformers = NoKeys
    /\ data = NoneV /\ idx = 0 /\ acc = <<>> /\ calls = 0

\* mutant of RegisterStore: a name that is registered keeps its entry
RegisterStoreKeepsFirst(name, st, r) ==
    IF Raised(r)
    THEN /\ outcome' = r
         /\ UNCHANGED <<heap, schemas, fout>>
    ELSE /\ heap' = Append(heap, NewTransformer(r.v, st))
         /\ schemas' = IF HasKey(schemas, name) THEN schemas
                       ELSE DictSet(schemas, name, RefV(Len(heap) + 1))
         /\ fout' = Append(fout, [name |-> name, instance |-> Len(heap) + 1,
                                  schema |-> r.v, strict |-> st])
         /\ outcome' = Ret(NoneV)

\* mutant of RegisterStore: a register that fails takes the name's entry away
RegisterStoreDropsOnFailure(name, st, r) ==
    IF Raised(r)
    THEN /\ outcome' = r
         /\ schemas' = SelectSeq(schemas, LAMBDA e : e[1] # name)
         /\ UNCHANGED <<heap, fout>>
    ELSE /\ heap' = Append(heap, NewTransformer(r.v, st))
         /\ schemas' = DictSet(schemas, name, RefV(Len(heap) + 1))
         /\ fout' = Append(fout, [name |-> name, instance |-> Len(heap) + 1,
                                  schema |-> r.v, strict |-> st])
         /\ outcome' = Ret(NoneV)

\* register once the schema document is at hand (r), or reading it raised:
\* the instance is built and stored under the name
RegisterStore(name, st, r) ==
    IF Raised(r)
    THEN /\ outcome' = r
         /\ UNCHANGED <<heap, schemas, fout>>
    ELSE /\ heap' = Append(heap, NewTransformer(r.v, st))
         /\ schemas' = DictSet(schemas, name, RefV(Len(heap) + 1))
         /\ fout' = Append(fout, [name |-> name, instance |-> Len(heap) + 1,
                                  schema |-> r.v, strict |-> st])
         /\ outcome' = Ret(NoneV)

\* register(name, schema, strict)
register(name, sch, st) ==
    /\ Len(heap) < MaxInstances
    /\ fin' = [op |-> "register", name |-> name, schema |-> sch, strict |-> st]
    /\ RegisterStore(name, st, IF IsPath(sch) THEN from_file(sch.s) ELSE Ret(sch))
    /\ UNCHANGED <<schema, strict, custom_transformers, pc, data, idx, acc, calls>>

\* get(name)
get(name) ==
    /\ fin' = [op |-> "get", name |-> name]
    /\ outcome' = Ret(DictGet(schemas, name))
    /\ UNCHANGED <<schema, strict, custom_transformers, pc, data, idx, acc, calls,
                   fout, heap, schemas>>

\* mutant of RegistryDelegate: a name that is not registered gets an empty
\* transformer registered and used
RegistryDelegateRegisters(name, d, got) ==
    IF IsNone(got)
    THEN /\ outcome' = transform(d, NoKeys, FALSE, NoKeys)
         /\ heap' = Append(heap, NewTransformer(NoKeys, FALSE))
         /\ schemas' = DictSet(schemas, name, RefV(Len(heap) + 1))
    ELSE /\ outcome' = transform(d, heap[got.a].schema, heap[got.a].strict,
                                 heap[got.a].custom_transformers)
         /\ UNCHANGED <<heap, schemas>>

\* SchemaRegistry.transform after transformer = self.get(name)
RegistryDelegate(name, d, got) ==
    /\ outcome' = IF IsNone(got)
                  THEN Raise("ValueError", <<"Schema '", name, "' not found in registry">>)
                  ELSE transform(d, heap[got.a].schema, heap[got.a].strict,
                                 heap[got.a].custom_transformers)
    /\ UNCHANGED <<heap, schemas>>

\* SchemaRegistry.transform(name, data)
registry_transform(name, d) ==
    /\ fin' = [op |-> "transform", name |-> name, data |-> d]
    /\ RegistryDelegate(name, d, DictGet(schemas, name))
    /\ UNCHANGED <<schema, strict, custom_transformers, pc, data, idx, acc, calls, fout>>

\* list_schemas()
list_schemas ==
    /\ fin' = [op |-> "list_schemas"]
    /\ outcome' = Ret(ListV([j \in 1..Len(schemas) |-> StrV(schemas[j][1])]))
    /\ UNCHANGED <<schema, strict, custom_transformers, pc, data, idx, acc, calls,
                   fout, heap, schemas>>

\* mutant of AddCustom: custom_transformers is one dict of the class, shared
\* by every instance
AddCustomShared(h, a, field_name, transformer) ==
    [b \in 1..Len(h) |->
        [h[b] EXCEPT !.custom_transformers =
            [f \in DOMAIN h[b].custom_transformers \cup {field_name} |->
                IF f = field_name THEN transformer ELSE h[b].custom_transformers[f]]]]

\* self.custom_transformers[field_name] = transformer, self being the instance
\* at a
AddCustom(h, a, field_name, transformer) ==
    [h EXCEPT ![a].custom_transformers =
        [f \in DOMAIN h[a].custom_transformers \cup {field_name} |->
            IF f = field_name THEN transformer ELSE h[a].custom_transformers[f]]]

\* add_custom_transformer(field_name, transformer) on the instance at a
InstanceAddCustomTransformer(a, field_name, transformer) ==
    /\ a \in 1..Len(heap)
    /\ idx < MaxAdds
    /\ idx' = idx + 1
    /\ fin' = [op |-> "add_custom_transformer", instance |-> a,
               field_name |-> field_name, transformer |-> transformer]
    /\ heap' = AddCustom(heap, a, field_name, transformer)
    /\ outcome' = Ret(NoneV)
    /\ UNCHANGED <<schema, strict, custom_transformers, pc, data, acc, calls,
                   fout, schemas>>

RegistryNext ==
    \/ \E name \in RegistryNames, arg \in RegisterArgs :
           register(name, arg[1], arg[2])
    \/ \E name \in RegistryNames : get(name)
    \/ \E name \in RegistryNames, d \in RegistryData : registry_transform(name, d)
    \/ list_schemas
    \/ \E a \in CustomisedInstances, c \in RegistryCustoms :
           InstanceAddCustomTransformer(a, c[1], c[2])

SpecRegistry == RegistryInit /\ [][RegistryNext]_vars

\* ------------------------------------------------------------ concurrent calls
\* Threads call transform on one instance at the same time. acc holds each
\* thread's frame of _transform_single: pc (where it is), data (its record),
\* j (the position in properties), result (its local dict), out (what the call
\* returned or raised), via (for each field done, "default" or the custom
\* transformer that was called), overlap (another call was under way during
\* one of its steps). A step ends at each read of custom_transformers, the
\* only attribute that is written after construction. fin is the set of
\* <<field name, transformer>> pairs ever stored in custom_transformers.

Threads == {1, 2}

IdleFrame ==
    [pc |-> "idle", data |-> NoneV, j |-> 0, result |-> <<>>, out |-> NoneV,
     via |-> <<>>, overlap |-> FALSE]

ConcSchemas ==
    {s \in Schemas :
        /\ s.properties = <<<<"a", [type |-> "integer", default |-> IntV(0)]>>,
                            <<"b", FieldSchemaB>>>>
        /\ s.required \in {{}, {"a", "b"}}}
ConcRegistries == {NoKeys, "b" :> "wrap"}
ConcRecords == BatchRecords

ConcInit ==
    /\ schema \in ConcSchemas
    /\ strict \in BOOLEAN
    /\ custom_transformers \in ConcRegistries
    /\ acc = [t \in Threads |-> IdleFrame]
    /\ fin = {<<f, custom_transformers[f]>> : f \in DOMAIN custom_transformers}
    /\ pc = "idle"
    /\ data = NoneV /\ idx = 0 /\ outcome = NoneV /\ calls = 0 /\ fout = NoneV
    /\ heap = <<>> /\ schemas = <<>>

\* the <<name, field schema>> item of properties thread t is at
PropertyAt(frames, t) == PropertiesOf(schema)[frames[t].j]

\* mutant of StoreResult: result is one dict shared by the calls under way
StoreResultShared(frames, t, field_name, value) ==
    [u \in DOMAIN frames |->
        IF frames[u].pc \in {"check", "lookup"}
        THEN [frames[u] EXCEPT !.result = DictSet(@, field_name, value)]
        ELSE frames[u]]

\* result[field_name] = value, on the local dict of thread t
StoreResult(frames, t, field_name, value) ==
    [frames EXCEPT ![t].result = DictSet(@, field_name, value)]

\* the loop of _transform_single moves on to the next property
NextField(frames, t, how) ==
    [frames EXCEPT ![t].j = @ + 1, ![t].pc = "check", ![t].via = Append(@, how)]

\* the loop body's try/except of thread t, given what _transform_field did (r)
ThreadHandler(frames, t, r, how) ==
    LET field_name == PropertyAt(frames, t)[1]
        field_schema == PropertyAt(frames, t)[2]
    IN  IF Returned(r)
        THEN NextField(StoreResult(frames, t, field_name, r.v), t, how)
        ELSE IF field_name \in RequiredOf(schema) /\ strict
             THEN [frames EXCEPT
                      ![t].pc = "done",
                      ![t].via = Append(@, how),
                      ![t].out = SingleHandler(
                          Raise("ValidationError",
                                <<"Required field '", field_name,
                                  "' transformation failed: ">> \o r.msg))]
             ELSE NextField(StoreResult(frames, t, field_name,
                                        SchemaGet(field_schema, "default", NoneV)),
                            t, how)

\* thread t took a step while another call was under way
Overlapped(frames, t) ==
    [frames EXCEPT ![t].overlap =
        @ \/ \E u \in DOMAIN frames \ {t} : frames[u].pc \in {"check", "lookup"}]

\* thread t calls transform(record): _transform_single starts
ThreadCall(t, record) ==
    /\ acc[t].pc = "idle"
    /\ acc' = [acc EXCEPT ![t] = [IdleFrame EXCEPT !.pc = "check", !.data = record, !.j = 1]]
    /\ UNCHANGED <<schema, strict, custom_transformers, pc, data, idx, outcome, calls, fin, fout, heap, schemas>>

\* `if field_name in self.custom_transformers`: found, the thread goes on to the
\* lookup; not found, the field takes the path of the declared type
ThreadCheck(t) ==
    /\ acc[t].pc = "check"
    /\ acc[t].j <= Len(PropertiesOf(schema))
    /\ IF PropertyAt(acc, t)[1] \in DOMAIN custom_transformers
       THEN acc' = Overlapped([acc EXCEPT ![t].pc = "lookup"], t)
       ELSE \E r \in {FieldValue(PropertyAt(acc, t)[1], PropertyAt(acc, t)[2],
                                 get_nested_value(acc[t].data,
                                     SchemaGet(PropertyAt(acc, t)[2], "source",
                                               <<PropertyAt(acc, t)[1]>>)),
                                 schema, strict, NoKeys)} :
                acc' = Overlapped(ThreadHandler(acc, t, r, "default"), t)
    /\ UNCHANGED <<schema, strict, custom_transformers, pc, data, idx, outcome, calls, fin, fout, heap, schemas>>

\* `self.custom_transformers[field_name](value)`: the lookup and the call
CustomLookup(ct, field_name, got) ==
    IF Raised(got) THEN got
    ELSE IF field_name \in DOMAIN ct THEN CallCustom(ct[field_name], got.v)
    ELSE Raise("KeyError", <<field_name>>)

ThreadLookup(t) ==
    /\ acc[t].pc = "lookup"
    /\ \E r \in {CustomLookup(custom_transformers, PropertyAt(acc, t)[1],
                              get_nested_value(acc[t].data,
                                  SchemaGet(PropertyAt(acc, t)[2], "source",
                                            <<PropertyAt(acc, t)[1]>>)))} :
           acc' = Overlapped(
                      ThreadHandler(acc, t, r,
                          IF PropertyAt(acc, t)[1] \in DOMAIN custom_transformers
                          THEN custom_transformers[PropertyAt(acc, t)[1]]
                          ELSE "missing"), t)
    /\ UNCHANGED <<schema, strict, custom_transformers, pc, data, idx, outcome, calls, fin, fout, heap, schemas>>

\* the loop is exhausted: _transform_single returns its result
ThreadReturn(t) ==
    /\ acc[t].pc = "check"
    /\ acc[t].j > Len(PropertiesOf(schema))
    /\ acc' = [acc EXCEPT ![t].pc = "done", ![t].out = Ret(DictV(acc[t].result))]
    /\ UNCHANGED <<schema, strict, custom_transformers, pc, data, idx, outcome, calls, fin, fout, heap, schemas>>

\* the caller of thread t is done with the result
ThreadContinues(t) ==
    /\ acc[t].pc = "done"
    /\ acc' = [acc EXCEPT ![t] = IdleFrame]
    /\ UNCHANGED <<schema, strict, custom_transformers, pc, data, idx, outcome, calls, fin, fout, heap, schemas>>

ThreadSteps ==
    \/ \E t \in Threads, record \in ConcRecords : ThreadCall(t, record)
    \/ \E t \in Threads : ThreadCheck(t)
    \/ \E t \in Threads : ThreadLookup(t)
    \/ \E t \in Threads : ThreadReturn(t)
    \/ \E t \in Threads : ThreadContinues(t)

\* transform calls only: every transformer was registered before the first use
SpecParallel == ConcInit /\ [][ThreadSteps]_vars

\* mutant of SetTransformer: the dict is replaced by one holding the new entry
SetTransformerReplacesAll(ct, field_name, transformer) ==
    field_name :> transformer

\* self.custom_transformers[field_name] = transformer
SetTransformer(ct, field_name, transformer) ==
    [f \in DOMAIN ct \cup {field_name} |->
        IF f = field_name THEN transformer ELSE ct[f]]

\* add_custom_transformer(field_name, transformer) called by another thread
\* while transform calls are under way
AddWhileTransforming(field_name, transformer) ==
    /\ custom_transformers' = SetTransformer(custom_transformers, field_name, transformer)
    /\ fin' = fin \cup {<<field_name, transformer>>}
    /\ UNCHANGED <<schema, strict, pc, data, idx, acc, outcome, calls, fout, heap, schemas>>

RaceCustoms == {<<"a", "wrap">>, <<"a", "fail">>, <<"b", "wrap">>}

RaceNext ==
    \/ ThreadSteps
    \/ \E c \in RaceCustoms : AddWhileTransforming(c[1], c[2])

SpecRace == ConcInit /\ [][RaceNext]_vars

\* ------------------------------------------------------------ a transformer built from a file
\* fin is the from_file call made (NoneV before it); a call that raises leaves
\* no instance (pc = "raised"); one that returns leaves the instance in schema,
\* strict and custom_transformers, which then transforms records.

FilePaths == DOMAIN SchemaFiles \cup {"missing.json"}

FileInit ==
    /\ schema = NoKeys /\ strict = FALSE /\ custom_transformers = NoKeys
    /\ pc = "idle"
    /\ fin = NoneV
    /\ data = NoneV /\ idx = 0 /\ acc = <<>> /\ outcome = NoneV /\ calls = 0
    /\ fout = NoneV /\ heap = <<>> /\ schemas = <<>>

\* SchemaTransformer.from_file(schema_path, strict=st)
ConstructFromFile(schema_path, st) ==
    /\ pc = "idle"
    /\ fin = NoneV
    /\ fin' = [schema_path |-> schema_path, strict |-> st]
    /\ \E r \in {from_file(schema_path)} :
           IF Returned(r)
           THEN /\ schema' = r.v
                /\ strict' = st
                /\ custom_transformers' = NoKeys
                /\ UNCHANGED <<pc, outcome>>
           ELSE /\ outcome' = r
                /\ pc' = "raised"
                /\ UNCHANGED <<schema, strict, custom_transformers>>
    /\ UNCHANGED <<data, idx, acc, calls, fout, heap, schemas>>

\* transform(record) on the instance from_file returned
TransformWithLoaded(record) ==
    /\ fin # NoneV
    /\ TransformRecord(record)

FileNext ==
    \/ \E schema_path \in FilePaths, st \in BOOLEAN : ConstructFromFile(schema_path, st)
    \/ \E record \in Records : TransformWithLoaded(record)
    \/ CallerContinues

SpecFile == FileInit /\ [][FileNext]_vars

\* ------------------------------------------------------------ ClientFactory and BaseClient
\* fin is the create_client call made; heap holds the client it returned, at
\* address 1; outcome is what create_client raised and, once the `with` block
\* on the client has been left, what the `with` statement returned or raised.
\* acc is the list of the methods called on the client; fout is the `with`
\* statement under way: what connect, the body and disconnect did.

\* the exception classes and their base class
ExceptionBases ==
    [e \in {"FactoryIngestionError", "ValueError", "AttributeError", "RuntimeError"} |->
        "Exception"]
    @@ [e \in {"ConnectionError", "ConfigurationError", "InvalidSourceTypeError"} |->
        "FactoryIngestionError"]
    @@ [e \in {"JSONDecodeError"} |-> "ValueError"]

RECURSIVE IsSubclass(_, _)
\* issubclass(exc, cls)
IsSubclass(exc, cls) ==
    \/ exc = cls
    \/ /\ exc \in DOMAIN ExceptionBases
       /\ IsSubclass(ExceptionBases[exc], cls)

\* ClientFactory.CLIENT_MAPPING
CLIENT_MAPPING ==
    [k \in {"athena"} |-> "AthenaClient"]
    @@ [k \in {"sqlserver"} |-> "SQLServerClient"]
    @@ [k \in {"mysql"} |-> "MySQLClient"]
    @@ [k \in {"sqlite"} |-> "SQLiteClient"]
    @@ [k \in {"postgres", "postgresql"} |-> "PostgresClient"]
    @@ [k \in {"opensearch"} |-> "OpenSearchClient"]
    @@ [k \in {"solr"} |-> "SolrClient"]
    @@ [k \in {"cassandra"} |-> "CassandraClient"]
    @@ [k \in {"kafka"} |-> "KafkaClient"]
    @@ [k \in {"sns"} |-> "SNSClient"]
    @@ [k \in {"sqs"} |-> "SQSClient"]
    @@ [k \in {"rabbitmq"} |-> "RabbitMQClient"]

\* client_class(config): BaseClient.__init__ reads config.keys()
NewClient(client_class, config) ==
    IF IsDict(config)
    THEN Ret([t |-> "client", class |-> client_class, config |-> config,
              connected |-> FALSE])
    ELSE Raise("AttributeError", <<"object has no attribute 'keys'">>)

\* the `except` clauses of create_client
CreateHandler(r) ==
    IF Raised(r) /\ r.exc # "InvalidSourceTypeError"
    THEN Raise("ConfigurationError", <<"Failed to create client: ">> \o r.msg)
    ELSE r

\* ClientFactory.create_client(source_type, config)
create_client(source_type, config) ==
    CreateHandler(
        IF StrLower(source_type) \notin DOMAIN CLIENT_MAPPING
        THEN Raise("InvalidSourceTypeError",
                   <<"Unsupported source type: ", source_type, ". Supported types: ">>)
        ELSE NewClient(CLIENT_MAPPING[StrLower(source_type)], config))

SourceTypes ==
    DOMAIN CLIENT_MAPPING
    \cup {"POSTGRES", "PostgreSQL", "SQLite", "Kafka", "MySql", "oracle", "ORACLE", ""}
ClientConfigs == {DictV(<<>>), DictV(<<<<"host", StrV("localhost")>>>>), NoneV}

\* connect() of the client classes: it returns with the client connected, or
\* the library call raises and the client is left as it was
connect(client, ok) ==
    IF ok THEN [client |-> [client EXCEPT !.connected = TRUE], out |-> Ret(NoneV)]
    ELSE [client |-> client, out |-> Raise("ConnectionError", <<"connect failed">>)]

\* the client classes whose disconnect() calls close() or shutdown() of the
\* library before it resets the connection, outside any try; the others only
\* assign None (Athena, SNS, Solr, SQS) or catch what close() raises (Postgres)
DisconnectMayRaise ==
    {"CassandraClient", "KafkaClient", "MySQLClient", "OpenSearchClient",
     "RabbitMQClient", "SQLiteClient", "SQLServerClient"}

\* disconnect() of the client classes: it returns with the connection reset,
\* or, where the library call is unguarded, that call raises and the reset
\* after it is not reached
disconnect(client, ok) ==
    IF ok \/ client.class \notin DisconnectMayRaise
    THEN [client |-> [client EXCEPT !.connected = FALSE], out |-> Ret(NoneV)]
    ELSE [client |-> client, out |-> Raise("RuntimeError", <<"close failed">>)]

\* what the `with` statement does once __exit__ has returned False, given
\* what the body (body) and disconnect (d) did: an exception of disconnect is
\* logged inside __exit__, an exception of the body goes on to the caller
ExitReturn(body, d) == IF Raised(body) THEN body ELSE Ret(NoneV)

ClientInit ==
    /\ pc = "idle"
    /\ fin = NoneV /\ fout = NoneV /\ outcome = NoneV
    /\ heap = <<>> /\ acc = <<>>
    /\ schema = NoKeys /\ strict = FALSE /\ custom_transformers = NoKeys
    /\ data = NoneV /\ idx = 0 /\ calls = 0 /\ schemas = <<>>

\* client = ClientFactory.create_client(source_type, config)
CreateClient(source_type, config) ==
    /\ pc = "idle"
    /\ fin' = [source_type |-> source_type, config |-> config]
    /\ \E r \in {create_client(source_type, config)} :
           IF Returned(r)
           THEN /\ heap' = <<r.v>>
                /\ pc' = "created"
                /\ UNCHANGED outcome
           ELSE /\ outcome' = r
                /\ pc' = "raised"
                /\ UNCHANGED heap
    /\ UNCHANGED <<schema, strict, custom_transformers, data, idx, acc, calls, fout, schemas>>

\* `with client:` starts: __enter__ calls connect and re-raises what it raises
EnterBlock(ok) ==
    /\ pc = "created"
    /\ \E c \in {connect(heap[1], ok)} :
           /\ heap' = <<c.client>>
           /\ acc' = Append(acc, "connect")
           /\ fout' = [connect |-> c.out, body |-> NoneV, disconnect |-> NoneV]
           /\ IF Returned(c.out)
              THEN pc' = "body" /\ UNCHANGED outcome
              ELSE pc' = "left" /\ outcome' = c.out
    /\ UNCHANGED <<schema, strict, custom_transformers, data, idx, calls, fin, schemas>>

\* the body of the `with` block ends, normally or with an exception
BodyEnds(raises) ==
    /\ pc = "body"
    /\ fout' = [fout EXCEPT !.body = IF raises
                                     THEN Raise("ValueError", <<"Test exception">>)
                                     ELSE Ret(NoneV)]
    /\ pc' = "exiting"
    /\ UNCHANGED <<schema, strict, custom_transformers, data, idx, acc, outcome, calls, fin, heap, schemas>>

\* __exit__(exc_type, exc_val, exc_tb): disconnect inside try/except, return False
ExitBlock(ok) ==
    /\ pc = "exiting"
    /\ \E d \in {disconnect(heap[1], ok)} :
           /\ heap' = <<d.client>>
           /\ acc' = Append(acc, "disconnect")
           /\ fout' = [fout EXCEPT !.disconnect = d.out]
           /\ outcome' = ExitReturn(fout.body, d.out)
    /\ pc' = "left"
    /\ UNCHANGED <<schema, strict, custom_transformers, data, idx, calls, fin, schemas>>

ClientNext ==
    \/ \E source_type \in SourceTypes, config \in ClientConfigs :
           CreateClient(source_type, config)
    \/ \E ok \in BOOLEAN : EnterBlock(ok)
    \/ \E raises \in BOOLEAN : BodyEnds(raises)
    \/ \E ok \in BOOLEAN : ExitBlock(ok)

SpecClient == ClientInit /\ [][ClientNext]_vars

\* ------------------------------------------------------------ falsy values
\* One declared type, with a default that is truthy, at three places of a
\* schema: the top-level field f, the field g with the dotted source u.f, and
\* the property f of the nested object o. The records hold a value at each of
\* the three places.

FalsyDefaults ==
    [ty \in {"integer"} |-> IntV(9)] @@ [ty \in {"number"} |-> FloatV(9)]
    @@ [ty \in {"boolean"} |-> BoolV(TRUE)] @@ [ty \in {"string"} |-> StrV("dflt")]
    @@ [ty \in {"array"} |-> ListV(<<StrV("dflt")>>)]

FalsySchemas ==
    {[type |-> "object",
      properties |->
          <<<<"f", [type |-> ty, default |-> FalsyDefaults[ty]]>>,
            <<"g", [type |-> ty, default |-> FalsyDefaults[ty], source |-> <<"u", "f">>]>>,
            <<"o", [type |-> "object",
                    properties |-> <<<<"f", [type |-> ty, default |-> FalsyDefaults[ty]]>>>>]>>>>,
      required |-> req] :
        ty \in DOMAIN FalsyDefaults, req \in {{}, {"f", "g", "o"}}}

FalsyValues ==
    {IntV(0), FloatV(0), BoolV(FALSE), StrV(""), ListV(<<>>), IntV(5), NoneV}
FalsyRecords ==
    {DictV(<<<<"f", v1>>, <<"u", DictV(<<<<"f", v2>>>>)>>, <<"o", DictV(<<<<"f", v3>>>>)>>>>) :
        v1 \in FalsyValues, v2 \in FalsyValues, v3 \in FalsyValues}

FalsyInit ==
    /\ schema \in FalsySchemas
    /\ strict \in BOOLEAN
    /\ custom_transformers = NoKeys
    /\ pc = "idle"
    /\ data = NoneV /\ idx = 0 /\ acc = <<>> /\ outcome = NoneV /\ calls = 0
    /\ fin = NoneV /\ fout = NoneV /\ heap = <<>> /\ schemas = <<>>

FalsyNext ==
    \/ \E record \in FalsyRecords : TransformRecord(record)
    \/ CallerContinues

SpecFalsy == FalsyInit /\ [][FalsyNext]_vars

\* ------------------------------------------------------------ what the claims speak of

Props == PropertiesOf(schema)
NameOf(j) == Props[j][1]
SchemaOf(j) == Props[j][2]
NameSeq == [j \in 1..Len(Props) |-> NameOf(j)]
KeySeq(v) == [j \in 1..Len(v.d) |-> v.d[j][1]]
SourceOf(j) == IF "source" \in DOMAIN SchemaOf(j) THEN SchemaOf(j).source ELSE <<NameOf(j)>>
DefaultOrNull(fs) == IF "default" \in DOMAIN fs THEN fs.default ELSE NoneV
HasCustom(j) == NameOf(j) \in DOMAIN custom_transformers
IsRequired(j) == NameOf(j) \in schema.required

RECURSIVE Present(_, _), Lookup(_, _)
\* every segment of the path is a key of the mapping reached so far
Present(v, path) ==
    \/ path = <<>>
    \/ /\ IsDict(v)
       /\ HasKey(v.d, Head(path))
       /\ Present(DictGet(v.d, Head(path)), Tail(path))
\* the value at the path, null when the path is not present
Lookup(v, path) ==
    IF path = <<>> THEN v
    ELSE IF IsDict(v) /\ HasKey(v.d, Head(path))
         THEN Lookup(DictGet(v.d, Head(path)), Tail(path))
         ELSE NoneV

\* the message holds the field's name
MsgNames(msg, name) == \E k \in 1..Len(msg) : msg[k] = name

\* a call of transform on a single record has ended
SingleDone == pc = "returned" /\ IsDict(data)
\* a call of transform on a list has ended
BatchDone == pc = "returned" /\ IsList(data)
\* what _transform_field does for the field at j of the schema on record r
FieldOutcome(j, r) ==
    transform_field(NameOf(j), SchemaOf(j), r, schema, strict, custom_transformers)

\* ------------------------------------------------------------ C1

\* C1: every mapping transformSingle returns has exactly the schema's declared
\* property names as keys, once each and in declaration order; no other key of
\* the input record appears, also when a field fell back to its default.
C1_OutputKeysAreSchemaNames ==
    /\ (SingleDone /\ Returned(outcome)) =>
           (IsDict(outcome.v) /\ KeySeq(outcome.v) = NameSeq)
    /\ \A k \in 1..Len(acc) : IsDict(acc[k]) /\ KeySeq(acc[k]) = NameSeq

\* a record with an undeclared key, one of whose fields failed and fell back
C1_Witness ==
    /\ SingleDone /\ Returned(outcome)
    /\ HasKey(data.d, "u")
    /\ \E j \in 1..Len(Props) : Raised(FieldOutcome(j, data))

\* ------------------------------------------------------------ C2

\* a field the claim C2 covers: no custom transformer, and not required or
\* the transformer is not strict, and its source is not present in the record
C2_Case(j) ==
    /\ ~HasCustom(j)
    /\ (~IsRequired(j) \/ ~strict)
    /\ ~Present(data, SourceOf(j))

\* C2: a field with no custom transformer that is not required (or any such
\* field of a non-strict transformer) whose source cannot be resolved never
\* makes transform raise; its output is its declared default, null without one.
C2_MissingOptionalYieldsDefault ==
    SingleDone =>
        \A j \in 1..Len(Props) :
            C2_Case(j) =>
                /\ Returned(FieldOutcome(j, data))
                /\ Returned(outcome) =>
                       DictGet(outcome.v.d, NameOf(j)) = DefaultOrNull(SchemaOf(j))
                /\ Raised(outcome) => ~MsgNames(outcome.msg, NameOf(j))

\* a required field of a non-strict transformer with a default and a dotted
\* source that ends in a value that is no mapping
C2_Witness ==
    /\ SingleDone /\ Returned(outcome)
    /\ \E j \in 1..Len(Props) :
          /\ C2_Case(j) /\ IsRequired(j)
          /\ "default" \in DOMAIN SchemaOf(j)
          /\ Len(SourceOf(j)) = 2
          /\ HasKey(data.d, SourceOf(j)[1])
          /\ DictGet(outcome.v.d, NameOf(j)) = SchemaOf(j).default

\* ------------------------------------------------------------ C3

\* C3 as stated, for a record in which one field only is missing: in strict
\* mode a record in which a required field is missing raises a validation
\* failure whose message names that field.
C3_Original ==
    (SingleDone /\ strict) =>
        \A j \in 1..Len(Props) :
            ( /\ IsRequired(j) /\ ~Present(data, SourceOf(j))
              /\ \A i \in 1..Len(Props) : i # j => Present(data, SourceOf(i)) ) =>
                /\ Raised(outcome)
                /\ outcome.exc = "ValidationError"
                /\ MsgNames(outcome.msg, NameOf(j))

\* the first field, in declaration order, that is required and whose
\* transformation raises
C3_FirstFailing(r) ==
    CHOOSE j \in 1..Len(Props) :
        /\ IsRequired(j) /\ Raised(FieldOutcome(j, r))
        /\ \A i \in 1..(j - 1) : ~(IsRequired(i) /\ Raised(FieldOutcome(i, r)))

\* C3 amended: in strict mode a record in which a required field that declares
\* no default and has no custom transformer is missing raises a validation
\* failure; its message names the first required field, in declaration order,
\* whose transformation fails (that field, when no earlier one fails).
C3_StrictMissingRequiredRaises ==
    (SingleDone /\ strict) =>
        \A j \in 1..Len(Props) :
            ( /\ IsRequired(j) /\ ~Present(data, SourceOf(j))
              /\ "default" \notin DOMAIN SchemaOf(j) /\ ~HasCustom(j) ) =>
                /\ Raised(outcome)
                /\ outcome.exc = "ValidationError"
                /\ C3_FirstFailing(data) <= j
                /\ MsgNames(outcome.msg, NameOf(C3_FirstFailing(data)))
                /\ \A i \in 1..Len(Props) :
                       i # C3_FirstFailing(data) => ~MsgNames(outcome.msg, NameOf(i))

\* the second declared field is the missing required one and the first is fine
C3_Witness ==
    /\ SingleDone /\ strict /\ Raised(outcome)
    /\ IsRequired(2) /\ ~Present(data, SourceOf(2))
    /\ "default" \notin DOMAIN SchemaOf(2) /\ ~HasCustom(2)
    /\ C3_FirstFailing(data) = 2
    /\ MsgNames(outcome.msg, NameOf(2))

\* ------------------------------------------------------------ C4

\* the field at j is unresolvable in the record and declares no default
C4_UnresolvableNoDefault(j) ==
    /\ IsNone(Lookup(data, SourceOf(j)))
    /\ "default" \notin DOMAIN SchemaOf(j)

\* every value the record holds for a field converts to the field's type
C4_ValuesConvert ==
    \A j \in 1..Len(Props) :
        \/ IsNone(Lookup(data, SourceOf(j)))
        \/ Returned(TYPE_CONVERTERS(SchemaOf(j).type, Lookup(data, SourceOf(j))))

C4_FieldFails(j) ==
    \/ ~HasCustom(j) /\ C4_UnresolvableNoDefault(j)
    \/ HasCustom(j) /\ Raised(CallCustom(custom_transformers[NameOf(j)],
                                         Lookup(data, SourceOf(j))))
    \/ /\ ~HasCustom(j)
       /\ ~IsNone(Lookup(data, SourceOf(j)))
       /\ "format" \notin DOMAIN SchemaOf(j)
       /\ Raised(TYPE_CONVERTERS(SchemaOf(j).type, Lookup(data, SourceOf(j))))
       /\ TYPE_CONVERTERS(SchemaOf(j).type, Lookup(data, SourceOf(j))).exc
              \notin {"ValueError", "TypeError"}

C5_CoercionFails(j) ==
    /\ ~HasCustom(j)
    /\ "format" \notin DOMAIN SchemaOf(j)
    /\ ~IsNone(Lookup(data, SourceOf(j)))
    /\ Raised(TYPE_CONVERTERS(SchemaOf(j).type, Lookup(data, SourceOf(j))))

\* C5 as stated: when a present value of a field fails type coercion,
\* transformSingle does not raise because of it, strict or not, required or
\* not: a failure of the record, if any, is about another field.
C5_Original ==
    SingleDone =>
        \A j \in 1..Len(Props) :
            C5_CoercionFails(j) =>
                (Raised(outcome) => ~MsgNames(outcome.msg, NameOf(j)))

\* ------------------------------------------------------------ C7

\* what the custom transformer of the field at j makes of the raw value at the
\* field's source path in the record
C7_Custom(j) == CallCustom(custom_transformers[NameOf(j)], Lookup(data, SourceOf(j)))

\* C7: for a field with a registered custom transformer fn that returns, the
\* field's output is fn(v) for the raw value v at the field's source path (null
\* when absent, never the default); type, format and default are not applied.
C7_CustomResultVerbatim ==
    SingleDone =>
        \A j \in 1..Len(Props) :
            (HasCustom(j) /\ Returned(C7_Custom(j))) =>
                /\ Returned(outcome) => DictGet(outcome.v.d, NameOf(j)) = C7_Custom(j).v
                /\ Raised(outcome) => ~MsgNames(outcome.msg, NameOf(j))

\* the transformer was given null for an absent source although the field
\* declares a default
C7_Witness ==
    /\ SingleDone /\ Returned(outcome)
    /\ \E j \in 1..Len(Props) :
          /\ HasCustom(j) /\ custom_transformers[NameOf(j)] = "wrap"
          /\ "default" \in DOMAIN SchemaOf(j)
          /\ ~Present(data, SourceOf(j))
          /\ DictGet(outcome.v.d, NameOf(j)) = ListV(<<NoneV>>)

\* ------------------------------------------------------------ C9

\* what _transform_single makes of the record r
Single(r) == transform_single(r, schema, strict, custom_transformers)

\* C9: transform of a sequence of n records none of which fails returns a
\* sequence of n mappings, the i-th being transformSingle of the i-th record;
\* transform of a single record returns that record's mapping, not a sequence.
C9_BatchMapsEachRecord ==
    /\ (BatchDone /\ \A i \in 1..Len(data.l) : Returned(Single(data.l[i]))) =>
           /\ Returned(outcome) /\ IsList(outcome.v)
           /\ Len(outcome.v.l) = Len(data.l)
           /\ \A i \in 1..Len(data.l) : outcome.v.l[i] = Single(data.l[i]).v
    /\ (SingleDone /\ Returned(Single(data))) =>
           /\ Returned(outcome) /\ IsDict(outcome.v)
           /\ outcome.v = Single(data).v

\* a batch of three records whose mappings differ
C9_Witness ==
    /\ BatchDone /\ Returned(outcome)
    /\ Len(data.l) = 3
    /\ outcome.v.l[1] # outcome.v.l[2]
    /\ outcome.v.l[2] = outcome.v.l[3]

\* ------------------------------------------------------------ C10

\* the positions of the batch whose record fails
C10_Failing == {i \in 1..Len(data.l) : Raised(Single(data.l[i]))}
C10_First == CHOOSE i \in C10_Failing : \A k \in C10_Failing : i <= k

\* C10: when some record of a batch raises a validation failure, the whole
\* call raises that failure and returns no output for any record, the ones
\* before the failing one included; the records after the first failing one
\* are not transformed.
C10_BatchFailureAborts ==
    (BatchDone /\ C10_Failing # {}) =>
        /\ Raised(outcome)
        /\ outcome.exc = "ValidationError"
        /\ outcome = Single(data.l[C10_First])
        /\ "v" \notin DOMAIN outcome
        /\ acc = <<>>
        /\ calls = C10_First

\* the second of three records failed: the first was transformed and is lost,
\* the third was never looked at
C10_Witness ==
    /\ BatchDone /\ Raised(outcome)
    /\ Len(data.l) = 3
    /\ C10_First = 2
    /\ calls = 2

\* ------------------------------------------------------------ C11

\* the k-th output record took the declared default for the field named name
C11_Defaulted(k, name) ==
    \E j \in 1..Len(Props) :
        /\ NameOf(j) = name
        /\ "default" \in DOMAIN SchemaOf(j)
        /\ DictGet(acc[k].d, name) = SchemaOf(j).default

\* C11 as stated: when a caller changes the defaulted value inside one output
\* record, the value of that field in every other output record and the
\* default declared in the schema stay as they were, also when the default is
\* a list or a dict.
C11_Original ==
    [][\A k \in 1..Len(acc), j \in 1..Len(Props) :
           (CallerChanges(k, j) /\ C11_Defaulted(k, NameOf(j))) =>
               /\ \A o \in 1..Len(acc) :
                      o # k => Load(heap', acc'[o]) = Load(heap, acc[o])
               /\ SchemaView(heap', schema') = SchemaView(heap, schema)]_vars

\* ------------------------------------------------------------ C13

\* two calls of the log were given the same schema content, the same registry
\* of custom transformers and the same input
C13_SameCall(a, b) ==
    /\ fout[a].registry = fout[b].registry
    /\ fout[a].view = fout[b].view
    /\ fout[a].input = fout[b].input

C12_Original ==
    (pc = "twice" /\ ~strict) => fout = outcome

\* ------------------------------------------------------------ C14

\* what TypeCoercer is to make of a value under a field spec: null for null,
\* the format conversion when a format is set, the conversion to the declared
\* type otherwise, and the spec's default, null without one, when that fails
Coerced(value, fs) ==
    IF IsNone(value) THEN NoneV
    ELSE IF "format" \in DOMAIN fs
         THEN IF Raised(FormatBody(value, fs.format)) THEN DefaultOrNull(fs)
              ELSE FormatBody(value, fs.format).v
    ELSE IF SchemaGet(fs, "type", "string") \in TypeNames
         THEN IF Raised(TYPE_CONVERTERS(SchemaGet(fs, "type", "string"), value))
              THEN DefaultOrNull(fs)
              ELSE TYPE_CONVERTERS(SchemaGet(fs, "type", "string"), value).v
    ELSE value

\* the sequence transformArray maps: the value, or the value wrapped
C14_Sequence == IF IsList(fin.value) THEN fin.value.l ELSE <<fin.value>>
C14_Items == SchemaGet(fin.field_schema, "items", NoKeys)
C14_AsObject ==
    SchemaGet(C14_Items, "type", "string") = "object" /\ "properties" \in DOMAIN C14_Items

\* C14 as stated: transformArray on a sequence of n elements returns n
\* elements, the i-th being the conversion of the i-th input element (through
\* ObjectTransformer for object items with properties, through TypeCoercer
\* otherwise); an element whose coercion fails stays in its position as the
\* items default or null; a value that is no sequence yields one element.
C14_Original ==
    pc = "done" =>
        /\ Returned(fout) /\ IsList(fout.v)
        /\ Len(fout.v.l) = Len(C14_Sequence)
        /\ \A i \in 1..Len(C14_Sequence) :
               fout.v.l[i] = IF C14_AsObject
                             THEN transform_object(C14_Sequence[i], C14_Items).v
                             ELSE Coerced(C14_Sequence[i], C14_Items)

\* ------------------------------------------------------------ C15

C15_Properties == fin.field_schema.properties
\* the text of the source of the nested property at j: its own name without one
C15_Source(j) ==
    PathText(SchemaGet(C15_Properties[j][2], "source", <<C15_Properties[j][1]>>))

\* C15 as stated: transformObject returns an empty mapping, without raising
\* and whatever the field's own default, for an input that is no mapping; for
\* a mapping it returns a mapping with exactly the declared nested property
\* names, each holding the value found under its own source (or name) in the
\* nested value, coerced to its declared type, and its own default or null
\* when that value is absent.
C15_Original ==
    pc = "done" =>
        /\ ~IsDict(fin.value) => fout = Ret(DictV(<<>>))
        /\ IsDict(fin.value) =>
               /\ Returned(fout) /\ IsDict(fout.v)
               /\ KeySeq(fout.v) = [j \in 1..Len(C15_Properties) |-> C15_Properties[j][1]]
               /\ \A j \in 1..Len(C15_Properties) :
                      fout.v.d[j][2] =
                          IF IsNone(DictGet(fin.value.d, C15_Source(j)))
                          THEN DefaultOrNull(C15_Properties[j][2])
                          ELSE Coerced(DictGet(fin.value.d, C15_Source(j)),
                                       C15_Properties[j][2])

\* ------------------------------------------------------------ C16

\* C16 as stated: a property declared inside a nested object as type object
\* with properties of its own is mapped through those properties: for a
\* mapping found under it, the output holds exactly the declared inner names,
\* each inner value coerced to its declared type.
C16_Original ==
    (pc = "done" /\ IsDict(fin.value) /\ Returned(fout)) =>
        \A j \in 1..Len(C15_Properties) :
            ( /\ SchemaGet(C15_Properties[j][2], "type", "string") = "object"
              /\ "properties" \in DOMAIN C15_Properties[j][2]
              /\ IsDict(DictGet(fin.value.d, C15_Source(j))) ) =>
                fout.v.d[j][2] =
                    transform_object(DictGet(fin.value.d, C15_Source(j)),
                                     C15_Properties[j][2]).v

\* ------------------------------------------------------------ C17

\* transform of the data validate was given raises: the record's
\* transformation raises, or that of some record of the batch
C17_TransformRaises ==
    IF IsList(data) THEN \E i \in 1..Len(data.l) : Raised(Single(data.l[i]))
    ELSE Raised(Single(data))

\* C17: validate(data) returns false exactly when transform(data) raises a
\* validation failure and true whenever transform(data) returns, for a record
\* and for a batch (false as soon as one record fails); what it returns is a
\* boolean, never transformed data, and it leaves the schema and the registry
\* of custom transformers as they were.
C17_ValidateMirrorsTransform ==
    /\ [](pc = "returned" =>
              /\ Returned(outcome)
              /\ outcome.v \in {BoolV(TRUE), BoolV(FALSE)}
              /\ outcome.v = BoolV(~C17_TransformRaises))
    /\ [][pc' = "returned" =>
              schema' = schema /\ custom_transformers' = custom_transformers]_vars

\* a batch of three whose second record fails is not valid, and a registered
\* custom transformer is still there
C17_Witness ==
    /\ pc = "returned" /\ IsList(data)
    /\ Len(data.l) = 3
    /\ Returned(Single(data.l[1])) /\ Raised(Single(data.l[2]))
    /\ outcome = Ret(BoolV(FALSE))
    /\ custom_transformers # NoKeys

\* ------------------------------------------------------------ C18

\* the names some register call that returned was given
C18_Registered == {fout[i].name : i \in 1..Len(fout)}
\* the most recent register call that returned for the name
C18_Last(name) ==
    fout[CHOOSE i \in 1..Len(fout) :
             /\ fout[i].name = name
             /\ \A k \in (i + 1)..Len(fout) : fout[k].name # name]
C18_Names(sch) == {sch[j][1] : j \in 1..Len(sch)}

\* C18: after any sequence of register calls, get(name) returns the
\* transformer built by the most recent register(name, ...), with the schema
\* and the strictness that call was given, and absent for a name never
\* registered; registering again raises nothing (register raises only what
\* reading a schema file raises); listSchemas holds every registered name
\* once; the set of listed names never shrinks.
C18_RegistryKeepsLatest ==
    /\ []((fin # NoneV /\ fin.op = "get") =>
              IF fin.name \in C18_Registered
              THEN /\ outcome = Ret(RefV(C18_Last(fin.name).instance))
                   /\ heap[outcome.v.a].schema = C18_Last(fin.name).schema
                   /\ heap[outcome.v.a].strict = C18_Last(fin.name).strict
              ELSE outcome = Ret(NoneV))
    /\ []((fin # NoneV /\ fin.op = "register" /\ Raised(outcome)) =>
              /\ IsPath(fin.schema)
              /\ outcome = from_file(fin.schema.s))
    /\ []((fin # NoneV /\ fin.op = "list_schemas") =>
              /\ Len(outcome.v.l) = Cardinality(C18_Registered)
              /\ {outcome.v.l[j].s : j \in 1..Len(outcome.v.l)} = C18_Registered)
    /\ [][C18_Names(schemas) \subseteq C18_Names(schemas')]_vars

\* a name registered twice, another name in between: get returns the third
\* instance, whose schema is not the one of the first
C18_Witness ==
    /\ fin # NoneV /\ fin.op = "get"
    /\ Len(fout) = 3
    /\ fout[1].name = fin.name /\ fout[2].name # fin.name /\ fout[3].name = fin.name
    /\ fout[1].schema # fout[3].schema
    /\ outcome = Ret(RefV(3))

\* ------------------------------------------------------------ C19

\* C19: SchemaRegistry.transform(name, data) raises a schema-not-found
\* condition, which is no validation failure, when name was never registered,
\* and leaves the registry as it was; when name is registered it returns what
\* transform(data) of the transformer registered last under name returns, or
\* raises what it raises.
C19_RegistryTransformDelegates ==
    /\ []((fin # NoneV /\ fin.op = "transform") =>
              IF fin.name \in C18_Registered
              THEN outcome =
                       transform(fin.data,
                                 C18_Last(fin.name).schema,
                                 C18_Last(fin.name).strict,
                                 heap[C18_Last(fin.name).instance].custom_transformers)
              ELSE /\ Raised(outcome)
                   /\ outcome.exc = "ValueError"
                   /\ outcome.exc # "ValidationError"
                   /\ MsgNames(outcome.msg, fin.name))
    /\ [][(fin' # fin /\ fin'.op = "transform") =>
              (schemas' = schemas /\ heap' = heap)]_vars

\* a name that is not registered, next to one that is
C19_Witness ==
    /\ fin # NoneV /\ fin.op = "transform"
    /\ fin.name \notin C18_Registered
    /\ C18_Registered # {}
    /\ Raised(outcome) /\ outcome.exc = "ValueError"

\* ------------------------------------------------------------ C20

\* the fields of the instance at b that have a custom transformer
C20_Fields(h, b) == DOMAIN h[b].custom_transformers

\* C20: addCustomTransformer(f, fn) sets the entry of field f to fn, also when
\* f had an entry, and leaves the entries of the other fields, the schema and
\* every other instance as they were; no step removes an entry: the set of
\* fields with a custom transformer never shrinks.
C20_AddCustomIsLocal ==
    /\ [][idx' # idx =>
              /\ heap'[fin'.instance].custom_transformers[fin'.field_name]
                     = fin'.transformer
              /\ C20_Fields(heap', fin'.instance)
                     = C20_Fields(heap, fin'.instance) \cup {fin'.field_name}
              /\ \A g \in C20_Fields(heap, fin'.instance) \ {fin'.field_name} :
                     heap'[fin'.instance].custom_transformers[g]
                         = heap[fin'.instance].custom_transformers[g]
              /\ heap'[fin'.instance].schema = heap[fin'.instance].schema
              /\ heap'[fin'.instance].strict = heap[fin'.instance].strict
              /\ Len(heap') = Len(heap)
              /\ \A b \in 1..Len(heap) : b # fin'.instance => heap'[b] = heap[b]
              /\ schemas' = schemas]_vars
    /\ [][\A b \in 1..Len(heap) :
              C20_Fields(heap, b) \subseteq C20_Fields(heap', b)]_vars

\* two registrations for the same field of one instance left one entry, the
\* one of the last call, and the other instance has none
C20_Witness ==
    /\ idx = 2
    /\ Len(heap) = 2
    /\ fin # NoneV /\ fin.op = "add_custom_transformer"
    /\ fin.transformer = "fail"
    /\ heap[fin.instance].custom_transformers = ("a" :> "fail")
    /\ \A b \in 1..Len(heap) : b # fin.instance => heap[b].custom_transformers = NoKeys

\* ------------------------------------------------------------ C6

\* the format conversion of the drawn value fails
C6_FormatFails ==
    /\ ~IsNone(fin.value)
    /\ "format" \in DOMAIN fin.field_schema
    /\ Raised(FormatBody(fin.value, fin.field_schema.format))

\* C6 as stated, for format conversions: when the conversion of a non-null
\* value fails, coerce outputs the field's declared default, null without one,
\* and never the unconverted raw value.
C6_Original ==
    (pc = "done" /\ C6_FormatFails) =>
        /\ fout = Ret(DefaultOrNull(fin.field_schema))
        /\ fout # Ret(fin.value)

\* ------------------------------------------------------------ C8

\* C8: resolve with a dotted path returns the value reached by descending one
\* key per segment through nested mappings, and absent, without raising, when
\* a segment is missing or an intermediate value is no mapping; with a path
\* without separator it is a direct single-key lookup.
C8_ResolveDescends ==
    pc = "done" =>
        /\ Len(fin.path) > 1 =>
               /\ Returned(fout)
               /\ Present(fin.record, fin.path) => fout.v = Lookup(fin.record, fin.path)
               /\ ~Present(fin.record, fin.path) => fout.v = NoneV
        /\ (Len(fin.path) = 1 /\ IsDict(fin.record)) =>
               fout = Ret(IF HasKey(fin.record.d, fin.path[1])
                          THEN Lookup(fin.record, fin.path) ELSE NoneV)

\* three segments lead through two mappings to a value that is zero
C8_Witness ==
    /\ pc = "done"
    /\ Len(fin.path) = 3
    /\ Present(fin.record, fin.path)
    /\ fout = Ret(IntV(0))

\* ------------------------------------------------------------ C21
\* C21: with no add_custom_transformer running, in every interleaving of the
\* steps of concurrent transform calls on one instance, a call that has ended
\* holds what _transform_single returns or raises for its record when run
\* alone, and a call under way, continued alone from where it is, ends the
\* same way: no step of one call changes what another call reads.
C21_Alone(t) == transform_single(acc[t].data, schema, strict, custom_transformers)

C21_ConcurrentCallsAreIndependent ==
    \A t \in Threads :
        /\ acc[t].pc = "done" => acc[t].out = C21_Alone(t)
        /\ acc[t].pc \in {"check", "lookup"} =>
               SingleHandler(SingleLoop(acc[t].data, schema, strict, custom_transformers,
                                        acc[t].j, acc[t].result)) = C21_Alone(t)

\* both calls ran interleaved on different records, one through a custom
\* transformer, and both have ended
C21_Witness ==
    /\ acc[1].pc = "done" /\ acc[2].pc = "done"
    /\ acc[1].overlap /\ acc[2].overlap
    /\ acc[1].data # acc[2].data
    /\ Returned(acc[1].out) /\ Returned(acc[2].out)
    /\ acc[1].out # acc[2].out
    /\ custom_transformers # NoKeys

\* ------------------------------------------------------------ C30
\* what a call used for the fields it has done: the registry holding, for
\* each field that went through a custom transformer, that transformer
C30_Used(t) ==
    [f \in {PropertiesOf(schema)[k][1] :
                k \in {i \in 1..Len(acc[t].via) : acc[t].via[i] # "default"}} |->
        acc[t].via[CHOOSE k \in 1..Len(acc[t].via) : PropertiesOf(schema)[k][1] = f]]

\* C30: with add_custom_transformer running between the steps of transform
\* calls, a membership check that found the field is followed by a lookup that
\* finds it; every field a call has done went through the path of its declared
\* type or through a transformer that was stored for that field; and a call
\* that has ended holds what _transform_single gives with exactly those
\* transformers registered, so no failure comes from the race itself.
C30_RaceNeverBreaksLookup ==
    \A t \in Threads :
        /\ acc[t].pc = "lookup" =>
               PropertyAt(acc, t)[1] \in DOMAIN custom_transformers
        /\ \A k \in 1..Len(acc[t].via) :
               \/ acc[t].via[k] = "default"
               \/ <<PropertiesOf(schema)[k][1], acc[t].via[k]>> \in fin
        /\ acc[t].pc = "done" =>
               acc[t].out = transform_single(acc[t].data, schema, strict, C30_Used(t))

\* a call has ended whose first field took the path of its declared type
\* although a transformer is registered for it by now, and whose second
\* field went through a custom transformer
C30_Witness ==
    \E t \in Threads :
        /\ acc[t].pc = "done"
        /\ Len(acc[t].via) = 2
        /\ acc[t].via[1] = "default"
        /\ "a" \in DOMAIN custom_transformers
        /\ acc[t].via[2] = "wrap"
        /\ <<"b", "wrap">> \in fin
        /\ Returned(acc[t].out)

\* ------------------------------------------------------------ C22
\* C22 (as stated): from_file on the path of an existing file, holding the
\* schema as JSON or as YAML, returns a transformer whose schema is the
\* document stored in the file.
C22_Original ==
    (fin # NoneV /\ fin.schema_path \in DOMAIN SchemaFiles) =>
        /\ pc # "raised"
        /\ schema = SchemaFiles[fin.schema_path].doc
        /\ strict = fin.strict

\* ------------------------------------------------------------ C23
\* C23 (as stated): create_client with a mapping config returns, for a source
\* type that is a key of CLIENT_MAPPING in any letter case, a client of the
\* mapped class holding the config, and raises, for any other source type, a
\* ValueError whose message says the source type is unsupported.
C23_Original ==
    (pc \in {"created", "raised"} /\ IsDict(fin.config)) =>
        IF \E k \in DOMAIN CLIENT_MAPPING : StrLower(fin.source_type) = k
        THEN /\ pc = "created"
             /\ heap[1].class = CLIENT_MAPPING[StrLower(fin.source_type)]
             /\ heap[1].config = fin.config
        ELSE /\ pc = "raised"
             /\ IsSubclass(outcome.exc, "ValueError")
             /\ outcome.msg[1] = "Unsupported source type: "

\* ------------------------------------------------------------ C24
\* the `with` block was entered (connect returned) and has been left
C24_Left == pc = "left" /\ Returned(fout.connect)

\* C24 (as stated): once a `with` block that was entered has been left,
\* connect then disconnect were called, each once, an exception of the body
\* has reached the caller, and the client is not connected.
C24_Original ==
    C24_Left =>
        /\ acc = <<"connect", "disconnect">>
        /\ Raised(fout.body) => outcome = fout.body
        /\ ~heap[1].connected

\* ------------------------------------------------------------ C25
\* the drawn value is a number or a text, and the drawn field schema is an
\* array without format
C25_ScalarToArray ==
    /\ fin.value.t \in {"int", "float", "str"}
    /\ fin.field_schema.type = "array"
    /\ "format" \notin DOMAIN fin.field_schema

\* C25 (as stated): coerce of a number or a text to the type array returns
\* the one-element sequence holding that value.
C25_Original ==
    (pc = "done" /\ C25_ScalarToArray) => fout = Ret(ListV(<<fin.value>>))

\* ------------------------------------------------------------ C26
RECURSIVE C26_WithoutNulls(_)
\* the record without its entries whose value is null, at every depth
C26_WithoutNulls(v) ==
    IF IsDict(v)
    THEN LET kept == SelectSeq(v.d, LAMBDA e : ~IsNone(e[2]))
         IN  DictV([k \in 1..Len(kept) |-> <<kept[k][1], C26_WithoutNulls(kept[k][2])>>])
    ELSE v

\* the source of the field at j is present in the record and holds null
C26_ExplicitNull(j) ==
    /\ Present(data, SourceOf(j))
    /\ IsNone(Lookup(data, SourceOf(j)))

\* C26: a record with explicit nulls is transformed exactly as the same record
\* with those entries left out; a field without custom transformer whose
\* source holds an explicit null yields its declared default, null without
\* one, and raises a validation failure that says the field is missing when
\* it is required, has no default and the transformer is strict.
C26_NullIsLikeMissing ==
    SingleDone =>
        /\ outcome = Single(C26_WithoutNulls(data))
        /\ \A j \in 1..Len(Props) :
               (C26_ExplicitNull(j) /\ ~HasCustom(j)) =>
                   FieldOutcome(j, data) =
                       IF "default" \in DOMAIN SchemaOf(j) THEN Ret(SchemaOf(j).default)
                       ELSE IF IsRequired(j) /\ strict
                            THEN Raise("ValidationError",
                                       <<"Required field '", NameOf(j), "' is missing">>)
                            ELSE Ret(NoneV)

\* a strict transformer, a required field without default whose key is in the
\* record with null: the record fails, naming the field
C26_Witness ==
    /\ SingleDone /\ strict
    /\ \E j \in 1..Len(Props) :
          /\ C26_ExplicitNull(j) /\ ~HasCustom(j) /\ IsRequired(j)
          /\ Len(SourceOf(j)) = 1
          /\ "default" \notin DOMAIN SchemaOf(j)
          /\ Raised(outcome)
          /\ outcome.exc = "ValidationError"
          /\ MsgNames(outcome.msg, NameOf(j))

\* ------------------------------------------------------------ C28
\* the custom transformer registered for the field at j raises on the record
C28_CustomRaises(j) == HasCustom(j) /\ Raised(FieldOutcome(j, data))
\* the field at k fails, is required, and the transformer is strict
C28_Escalates(k) == Raised(FieldOutcome(k, data)) /\ IsRequired(k) /\ strict

\* C28: a field whose custom transformer raises, when it is not required or
\* the transformer is not strict, does not make _transform_single raise: the
\* record is returned unless another field fails it, the field holds its
\* declared default, null without one, and every other field holds what its
\* own transformation gives; when the field is required and the transformer
\* is strict the record raises a validation failure, which names the field
\* unless an earlier field already failed the record.
C28_CustomFailureIsIsolated ==
    SingleDone =>
        \A j \in 1..Len(Props) :
            C28_CustomRaises(j) =>
                IF IsRequired(j) /\ strict
                THEN /\ Raised(outcome)
                     /\ outcome.exc = "ValidationError"
                     /\ (\A k \in 1..(j - 1) : ~C28_Escalates(k)) =>
                            MsgNames(outcome.msg, NameOf(j))
                ELSE /\ (\A k \in 1..Len(Props) : ~C28_Escalates(k)) => Returned(outcome)
                     /\ Raised(outcome) => ~MsgNames(outcome.msg, NameOf(j))
                     /\ Returned(outcome) =>
                            /\ DictGet(outcome.v.d, NameOf(j)) = DefaultOrNull(SchemaOf(j))
                            /\ \A k \in 1..Len(Props) :
                                   Returned(FieldOutcome(k, data)) =>
                                       DictGet(outcome.v.d, NameOf(k)) = FieldOutcome(k, data).v

\* a strict transformer whose custom transformer for a field that is not
\* required raises: the record is returned, that field holds its default and
\* the other field its converted value
C28_Witness ==
    /\ SingleDone /\ strict /\ Returned(outcome)
    /\ \E j \in 1..Len(Props) :
          /\ C28_CustomRaises(j) /\ ~IsRequired(j)
          /\ "default" \in DOMAIN SchemaOf(j)
          /\ DictGet(outcome.v.d, NameOf(j)) = SchemaOf(j).default
          /\ \E k \in 1..Len(Props) :
                /\ k # j /\ ~HasCustom(k)
                /\ DictGet(outcome.v.d, NameOf(k)) = IntV(7)

\* ------------------------------------------------------------ C29
\* the last call was a register given the path of a file that does not exist
C29_RegisterFailed ==
    /\ fin # NoneV /\ fin.op = "register"
    /\ Raised(outcome) /\ outcome.exc = "FileNotFoundError"

\* C29: a register call that raises because the schema file does not exist
\* changes neither the registry's dict nor any transformer; after it the
\* name's entry is the one of the last register that returned for the name,
\* absent when there was none, and the names held are those registered.
C29_FailedRegisterChangesNothing ==
    /\ [][C29_RegisterFailed' => (schemas' = schemas /\ heap' = heap /\ fout' = fout)]_vars
    /\ [](C29_RegisterFailed =>
              /\ DictGet(schemas, fin.name) =
                     (IF fin.name \in C18_Registered
                      THEN RefV(C18_Last(fin.name).instance) ELSE NoneV)
              /\ C18_Names(schemas) = C18_Registered)

\* a register with a missing file has just failed for a name that was
\* registered before, another name being registered too
C29_Witness ==
    /\ C29_RegisterFailed
    /\ fin.schema.s \notin DOMAIN SchemaFiles
    /\ fin.name \in C18_Registered
    /\ DictGet(schemas, fin.name) = RefV(C18_Last(fin.name).instance)
    /\ Cardinality(C18_Names(schemas)) = 2

\* ------------------------------------------------------------ C27
\* the value is falsy and of the declared type ty
C27_FalsyOf(v, ty) ==
    \/ ty = "integer" /\ v = IntV(0)
    \/ ty = "number" /\ v = FloatV(0)
    \/ ty = "boolean" /\ v = BoolV(FALSE)
    \/ ty = "string" /\ v = StrV("")
    \/ ty = "array" /\ v = ListV(<<>>)

\* the declared type of the schema's three places
C27_Type == SchemaOf(1).type

\* C27: a falsy value of the declared type, at top level, at the end of a
\* dotted source and as a property of a nested object, is the output of its
\* field, which is never the declared default; the field does not fail, and
\* the record's mapping, when the record is returned, holds that value.
C27_FalsyIsNotAbsent ==
    SingleDone =>
        /\ \A j \in 1..2 :
               C27_FalsyOf(Lookup(data, SourceOf(j)), C27_Type) =>
                   /\ FieldOutcome(j, data) = Ret(Lookup(data, SourceOf(j)))
                   /\ FieldOutcome(j, data) # Ret(SchemaOf(j).default)
                   /\ Returned(outcome) =>
                          DictGet(outcome.v.d, NameOf(j)) = Lookup(data, SourceOf(j))
        /\ C27_FalsyOf(Lookup(data, <<"o", "f">>), C27_Type) =>
               /\ Returned(FieldOutcome(3, data))
               /\ DictGet(FieldOutcome(3, data).v.d, "f") = Lookup(data, <<"o", "f">>)
               /\ Returned(outcome) =>
                      DictGet(DictGet(outcome.v.d, "o").d, "f") = Lookup(data, <<"o", "f">>)

\* a falsy value of the declared type at each of the three places, all
\* fields required and the transformer strict: the record is returned with
\* the three values, none replaced by the default
C27_Witness ==
    /\ SingleDone /\ strict /\ IsRequired(1) /\ Returned(outcome)
    /\ C27_Type = "array"
    /\ \A j \in 1..2 : C27_FalsyOf(Lookup(data, SourceOf(j)), C27_Type)
    /\ C27_FalsyOf(Lookup(data, <<"o", "f">>), C27_Type)
    /\ outcome.v = DictV(<<<<"f", ListV(<<>>)>>, <<"g", ListV(<<>>)>>,
                           <<"o", DictV(<<<<"f", ListV(<<>>)>>>>)>>>>)

====
